---------------------------- MODULE Spec2Model ----------------------------
(***************************************************************************)
(* A model of the disk-backed B+tree of alicia-lyu/BTree:                  *)
(*   - FixedRecordDataPage  (src/include/db/fixed_datapage.h)              *)
(*   - BufferPool           (src/unnamed/part_005, "db/buffer_pool.h")     *)
(*   - DBBTree              (src/include/db/db_btree.h)                    *)
(* A record is a tuple of RECORD_SIZE bytes whose first KEY_SIZE bytes are *)
(* the key; memcmp is the byte-lexicographic comparison.                   *)
(* The code is modelled as built with NDEBUG: an assert() does nothing.    *)
(***************************************************************************)
EXTENDS Integers, Sequences, FiniteSets, TLC

\* Template parameters of FixedRecordDataPage<PAGE_SIZE, RECORD_SIZE, KEY_SIZE>,
\* chosen so that the constructor's layout assertion holds:
\* sizeof(uintmax_t) + sizeof(bitset) + RECORD_COUNT * RECORD_SIZE <= PAGE_SIZE.
PAGE_SIZE == 64
RECORD_SIZE == 12
KEY_SIZE == 1
\* sizeof(uintmax_t)
SIZEOF_UINTMAX == 8
\* Largest byte value the inputs use.
MaxByte == 1

RECORD_COUNT == (PAGE_SIZE - SIZEOF_UINTMAX) \div (RECORD_SIZE + 1 \div 8)

Byte == 0..MaxByte
\* The records and keys the calls are given: key bytes all k, the other bytes
\* all p, so that two records can share a key and differ in payload.
MakeRecord(k, p) == [i \in 1..RECORD_SIZE |-> IF i <= KEY_SIZE THEN k ELSE p]
MakeKey(k) == [i \in 1..KEY_SIZE |-> k]
Record == {MakeRecord(k, p) : k \in Byte, p \in Byte}
Key == {MakeKey(k) : k \in Byte}
KeyOrRecord == Record \cup Key
Slots == 0..(RECORD_COUNT - 1)
\* std::numeric_limits<uintmax_t>::max(), the "no next leaf" mark: the all-ones
\* 64-bit word, written as the integer it is congruent to modulo 2^64.
U64MAX == -1
ZeroRecord == [i \in 1..RECORD_SIZE |-> 0]

\* std::memcmp(a, b, n): sign of the first differing byte among the first n
memcmp(a, b, n) ==
  IF \A i \in 1..n : a[i] = b[i] THEN 0
  ELSE LET d == CHOOSE i \in 1..n : a[i] # b[i] /\ \A j \in 1..(i - 1) : a[j] = b[j]
       IN  IF a[d] < b[d] THEN -1 ELSE 1

\* Base::get_size(key_or_record): the width of the argument
get_size(key_or_record) == Len(key_or_record)

\* The page as constructed with a next-offset hint: zeroed bitmap and record data.
NewPage(file_offset, next_page_offset) ==
  [ page_offset_ |-> file_offset,
    next_page_offset_ |-> next_page_offset,
    bitmap_ |-> [i \in Slots |-> FALSE],
    record_data_ |-> [i \in Slots |-> ZeroRecord] ]

\* bitmap_->count()
size(pg) == Cardinality({i \in Slots : pg.bitmap_[i]})

\* The scan of find_first_occupied: to_left and to_right move apart from index
\* until one of them, inside [lower_bound, upper_bound), is occupied.
RECURSIVE ffo_scan(_, _, _, _, _)
ffo_scan(pg, to_left, to_right, lower_bound, upper_bound) ==
  IF ~(to_left >= lower_bound \/ to_right < upper_bound) THEN RECORD_COUNT
  ELSE IF to_left >= lower_bound /\ pg.bitmap_[to_left] THEN to_left
  ELSE IF to_right < upper_bound /\ pg.bitmap_[to_right] THEN to_right
  ELSE ffo_scan(pg, to_left - 1, to_right + 1, lower_bound, upper_bound)

find_first_occupied(pg, index, lower_bound, upper_bound) ==
  ffo_scan(pg, index, index, lower_bound, upper_bound)

\* The narrowing loops work on (left, right) with 0 <= left <= right <=
\* RECORD_COUNT and are deterministic, so a loop that runs for more iterations
\* than there are such pairs repeats a pair and never ends.
LoopFuel == (RECORD_COUNT + 1) * (RECORD_COUNT + 1)

Returned(i) == [returns |-> TRUE, index |-> i]
Diverges == [returns |-> FALSE, index |-> RECORD_COUNT]

\* The while loop of search_lb; fuel counts the iterations left.
RECURSIVE search_lb_loop(_, _, _, _, _)
search_lb_loop(pg, arg, left, right, fuel) ==
  IF ~(right - left > 1) THEN Returned(left)
  ELSE IF fuel = 0 THEN Diverges
  ELSE
    LET mid == find_first_occupied(pg, left + (right - left) \div 2, left, right) IN
    IF mid = RECORD_COUNT THEN Returned(RECORD_COUNT)
    ELSE IF memcmp(arg, pg.record_data_[mid], get_size(arg)) <= 0
      THEN IF (mid + 1) - left = 2
           THEN IF pg.bitmap_[left] /\ memcmp(arg, pg.record_data_[left], get_size(arg)) <= 0
                THEN search_lb_loop(pg, arg, left, mid, fuel - 1)
                ELSE search_lb_loop(pg, arg, mid, mid + 1, fuel - 1)
           ELSE search_lb_loop(pg, arg, left, mid + 1, fuel - 1)
      ELSE search_lb_loop(pg, arg, mid + 1, right, fuel - 1)

search_lb(pg, arg) ==
  search_lb_loop(pg, arg, find_first_occupied(pg, 0, 0, RECORD_COUNT), RECORD_COUNT, LoopFuel)

\* The while loop of search_ub.
RECURSIVE search_ub_loop(_, _, _, _, _)
search_ub_loop(pg, arg, left, right, fuel) ==
  IF ~(right - left > 1) THEN Returned(left)
  ELSE IF fuel = 0 THEN Diverges
  ELSE
    LET mid == find_first_occupied(pg, left + (right - left) \div 2, left, right) IN
    IF mid = RECORD_COUNT THEN Returned(left)
    ELSE IF memcmp(arg, pg.record_data_[mid], get_size(arg)) < 0
      THEN IF (mid + 1) - left = 2
           THEN IF pg.bitmap_[left] /\ memcmp(arg, pg.record_data_[left], get_size(arg)) < 0
                THEN search_ub_loop(pg, arg, left, mid, fuel - 1)
                ELSE search_ub_loop(pg, arg, mid, mid + 1, fuel - 1)
           ELSE search_ub_loop(pg, arg, left, mid + 1, fuel - 1)
      ELSE search_ub_loop(pg, arg, mid + 1, right, fuel - 1)

search_ub(pg, arg) ==
  IF size(pg) = 0 THEN Returned(0)
  ELSE
    LET right == find_first_occupied(pg, RECORD_COUNT - 1, 0, RECORD_COUNT) IN
    IF memcmp(arg, pg.record_data_[right], get_size(arg)) >= 0
    THEN IF right = RECORD_COUNT - 1 THEN Returned(RECORD_COUNT) ELSE Returned(right + 1)
    ELSE search_ub_loop(pg, arg, 0, right + 1, LoopFuel)

\* search: the lower bound when the bytes in its slot equal the argument. The
\* slot is read whether or not its bit is set.
search(pg, arg) ==
  LET lb == search_lb(pg, arg) IN
  IF ~lb.returns THEN Diverges
  ELSE IF lb.index = RECORD_COUNT THEN Returned(RECORD_COUNT)
  ELSE IF memcmp(arg, pg.record_data_[lb.index], get_size(arg)) = 0 THEN lb
  ELSE Returned(RECORD_COUNT)


\* The copy loop of solidify: occupied slots move down to dest_index in slot
\* order, and a slot that was moved from is filled with zero bytes.
RECURSIVE solidify_loop(_, _, _, _)
solidify_loop(bitmap, data, src_index, dest_index) ==
  IF src_index = RECORD_COUNT THEN [data |-> data, dest_index |-> dest_index]
  ELSE IF bitmap[src_index]
    THEN solidify_loop(bitmap,
                       IF dest_index # src_index
                       THEN [data EXCEPT ![dest_index] = data[src_index], ![src_index] = ZeroRecord]
                       ELSE data,
                       src_index + 1, dest_index + 1)
    ELSE solidify_loop(bitmap, data, src_index + 1, dest_index)

\* A solidify without its last loop: the bits from dest_index on stay as they are
solidify_keeps_bits(pg) ==
  LET r == solidify_loop(pg.bitmap_, pg.record_data_, 0, 0) IN
  [ page |-> [pg EXCEPT !.record_data_ = r.data,
                        !.bitmap_ = [i \in Slots |-> i < r.dest_index \/ pg.bitmap_[i]]],
    dest_index |-> r.dest_index ]

\* solidify: the page afterwards and the returned start of the empty space
solidify(pg) ==
  LET r == solidify_loop(pg.bitmap_, pg.record_data_, 0, 0) IN
  [ page |-> [pg EXCEPT !.record_data_ = r.data,
                        !.bitmap_ = [i \in Slots |-> i < r.dest_index]],
    dest_index |-> r.dest_index ]

\* insert, the free slot lies before ub: std::move of the bytes of slots
\* (it, ub) one slot down, --ub, set_bit(it, get_bit(it)) for it < ub (which
\* changes no bit), then set_bit(ub, true) and the record copied to slot ub.
shift_before_ub(pg, record, it, ub) ==
  LET data == [i \in Slots |->
                 IF i >= it /\ i < ub - 1 THEN pg.record_data_[i + 1] ELSE pg.record_data_[i]]
      nub == ub - 1
  IN  [ page |-> [pg EXCEPT !.record_data_ = [data EXCEPT ![nub] = record],
                            !.bitmap_ = [pg.bitmap_ EXCEPT ![nub] = TRUE]],
        index |-> nub ]

\* insert, the free slot lies after ub: std::move of the bytes of slots
\* [ub, it) one slot up (std::move on unsigned char is memmove, so the
\* overlapping ranges are copied as a shift), set_bit(it, get_bit(it - 1)) from
\* it down to ub + 1, then set_bit(ub, true) and the record copied to slot ub.
shift_after_ub(pg, record, it, ub) ==
  LET data == [i \in Slots |->
                 IF i > ub /\ i <= it THEN pg.record_data_[i - 1] ELSE pg.record_data_[i]]
      bits == [i \in Slots |->
                 IF i > ub /\ i <= it THEN pg.bitmap_[i - 1] ELSE pg.bitmap_[i]]
  IN  [ page |-> [pg EXCEPT !.record_data_ = [data EXCEPT ![ub] = record],
                            !.bitmap_ = [bits EXCEPT ![ub] = TRUE]],
        index |-> ub ]

\* The slot the scan "auto it = --end(); while (it >= begin())" stops at: the
\* highest free slot. The page is not full where insert runs the scan.
last_free_slot(pg) ==
  CHOOSE i \in Slots : ~pg.bitmap_[i] /\ \A j \in Slots : j > i => pg.bitmap_[j]

\* insert from "if (ub == end())" on: ub is the slot the search chose.
insert_at(pg, record, ub0) ==
  LET sol == solidify(pg)
      pg1 == IF ub0 = RECORD_COUNT THEN sol.page ELSE pg
      ub  == IF ub0 = RECORD_COUNT THEN sol.dest_index ELSE ub0
  IN
  IF ~pg1.bitmap_[ub]
  THEN [ page |-> [pg1 EXCEPT !.record_data_[ub] = record, !.bitmap_[ub] = TRUE],
         index |-> ub, inserted |-> TRUE, returns |-> TRUE ]
  ELSE
    LET it == last_free_slot(pg1)
        r  == IF it < ub THEN shift_before_ub(pg1, record, it, ub)
                         ELSE shift_after_ub(pg1, record, it, ub)
    IN  [ page |-> r.page, index |-> r.index, inserted |-> TRUE, returns |-> TRUE ]

\* FixedRecordDataPage::insert(record, allow_dup)
insert(pg, record, allow_dup) ==
  IF size(pg) = RECORD_COUNT
  THEN [ page |-> pg, index |-> RECORD_COUNT, inserted |-> FALSE, returns |-> TRUE ]
  ELSE
    LET s == IF allow_dup THEN search_ub(pg, record) ELSE search_lb(pg, record) IN
    IF ~s.returns
    THEN [ page |-> pg, index |-> RECORD_COUNT, inserted |-> FALSE, returns |-> FALSE ]
    ELSE IF ~allow_dup /\ s.index # RECORD_COUNT
            /\ memcmp(record, pg.record_data_[s.index], RECORD_SIZE) = 0
    THEN [ page |-> pg, index |-> s.index, inserted |-> FALSE, returns |-> TRUE ]
    ELSE insert_at(pg, record, s.index)

\* The private erase(size_t index): clears a set bit and returns the iterator
\* at index, end() for a clear bit. The record bytes stay in the slot. For
\* index = RECORD_COUNT (erase(end())) the bitset is read one past its last
\* bit, which std::bitset keeps zero inside its last word: end() is returned.
erase_index(pg, index) ==
  IF index < RECORD_COUNT /\ pg.bitmap_[index]
  THEN [ page |-> [pg EXCEPT !.bitmap_[index] = FALSE], index |-> index, returns |-> TRUE ]
  ELSE [ page |-> pg, index |-> RECORD_COUNT, returns |-> TRUE ]

\* erase(const Record&) == erase(search(record))
erase_record(pg, record) ==
  LET f == search(pg, record) IN
  IF ~f.returns THEN [ page |-> pg, index |-> RECORD_COUNT, returns |-> FALSE ]
  ELSE erase_index(pg, f.index)

\* verify_order: every occupied record, in slot order, is >= the one before it
\* (the first is compared with the zero record).
verify_order(pg) ==
  \A i, j \in Slots :
    (i < j /\ pg.bitmap_[i] /\ pg.bitmap_[j])
      => memcmp(pg.record_data_[i], pg.record_data_[j], RECORD_SIZE) <= 0


\* is_full: bitmap_->count() == RECORD_COUNT
is_full(pg) == size(pg) = RECORD_COUNT

\* min() == advance_to_valid(begin()): the lowest occupied slot, end() if none
min(pg) ==
  IF \E i \in Slots : pg.bitmap_[i]
  THEN CHOOSE i \in Slots : pg.bitmap_[i] /\ \A j \in Slots : pg.bitmap_[j] => i <= j
  ELSE RECORD_COUNT

\* A left half that keeps the slot at RECORD_COUNT / 2 as well
split_left_inclusive(sol, right_sibling) ==
  [sol EXCEPT !.bitmap_ = [i \in Slots |-> sol.bitmap_[i] /\ i <= RECORD_COUNT \div 2],
              !.next_page_offset_ = right_sibling.page_offset_]

\* The statements of split_with after solidify(), on two distinct page
\* objects: sol is the solidified left page. It keeps its first
\* RECORD_COUNT / 2 slots and hands the bytes of the other slots to the start
\* of the right page, whose first right_size bits are set (its other bits and
\* bytes stay as they were); the right page is linked in after the left one.
split_left(sol, right_sibling) ==
  [sol EXCEPT !.bitmap_ = [i \in Slots |-> sol.bitmap_[i] /\ i < RECORD_COUNT \div 2],
              !.next_page_offset_ = right_sibling.page_offset_]

\* A right half that keeps the next offset it was constructed with
split_right_unlinked(sol, right_sibling) ==
  [right_sibling EXCEPT
     !.record_data_ = [i \in Slots |->
                         IF i + RECORD_COUNT \div 2 < RECORD_COUNT
                         THEN sol.record_data_[i + RECORD_COUNT \div 2]
                         ELSE right_sibling.record_data_[i]],
     !.bitmap_ = [i \in Slots |->
                    right_sibling.bitmap_[i] \/ i < size(sol) - RECORD_COUNT \div 2]]

split_right(sol, right_sibling) ==
  [right_sibling EXCEPT
     !.record_data_ = [i \in Slots |->
                         IF i + RECORD_COUNT \div 2 < RECORD_COUNT
                         THEN sol.record_data_[i + RECORD_COUNT \div 2]
                         ELSE right_sibling.record_data_[i]],
     !.bitmap_ = [i \in Slots |->
                    right_sibling.bitmap_[i] \/ i < size(sol) - RECORD_COUNT \div 2],
     !.next_page_offset_ = sol.next_page_offset_]

\* *(page->min()): the lowest occupied record
min_record(pg) == pg.record_data_[min(pg)]

SplitOut(left, right_sibling) ==
  [ left |-> left, right |-> right_sibling, mid_val |-> min_record(right_sibling) ]

\* split_with(right_sibling); mid_val is the right page's lowest occupied record
split_with(left, right_sibling) ==
  SplitOut(split_left(solidify(left).page, right_sibling),
           split_right(solidify(left).page, right_sibling))

\* split_with when right_sibling is the page itself (the pool handed out the
\* page that is being split): the same statements, run on the one object.
split_self(sol) ==
  [sol EXCEPT
     !.record_data_ = [i \in Slots |->
                         IF i + RECORD_COUNT \div 2 < RECORD_COUNT
                         THEN sol.record_data_[i + RECORD_COUNT \div 2]
                         ELSE sol.record_data_[i]],
     !.bitmap_ = [i \in Slots |-> i < size(sol) - RECORD_COUNT \div 2],
     !.next_page_offset_ = sol.page_offset_]

split_with_self(pg) == split_self(solidify(pg).page)


(***************************************************************************)
(* The page file. It is read and written in units of one page image        *)
(* (next-offset word, bitmap word, record bytes, padding: PAGE_SIZE bytes),*)
(* so the model keeps its length and one image per page-aligned offset.    *)
(* The header page at offset 0 has the same first two words: the first     *)
(* holds empty_pages_start, the second the count of discarded offsets.     *)
(***************************************************************************)
\* Bound on the length of the page file, in pages.
MaxFilePages == 6
PageOffsets == {i * PAGE_SIZE : i \in 0..(MaxFilePages - 1)}

\* An image that carries the bytes of the occupied slots only
ImageOfOccupied(pg) ==
  [ next_page_offset_ |-> pg.next_page_offset_,
    bitmap_ |-> pg.bitmap_,
    record_data_ |-> [i \in Slots |-> IF pg.bitmap_[i] THEN pg.record_data_[i] ELSE ZeroRecord] ]

Image(pg) ==
  [ next_page_offset_ |-> pg.next_page_offset_,
    bitmap_ |-> pg.bitmap_,
    record_data_ |-> pg.record_data_ ]

ZeroImage ==
  [ next_page_offset_ |-> 0,
    bitmap_ |-> [i \in Slots |-> FALSE],
    record_data_ |-> [i \in Slots |-> ZeroRecord] ]

\* The file before the first engine is constructed on its path.
NoFile == [ exists |-> FALSE, size |-> 0, image |-> [o \in PageOffsets |-> ZeroImage] ]

\* The bitset's storage word read as a number, and a number's low bits as a bitmap
RECURSIVE Pow2(_)
Pow2(n) == IF n = 0 THEN 1 ELSE 2 * Pow2(n - 1)
RECURSIVE WordOfBits(_, _)
WordOfBits(bitmap, i) ==
  IF i = RECORD_COUNT THEN 0
  ELSE (IF bitmap[i] THEN Pow2(i) ELSE 0) + WordOfBits(bitmap, i + 1)
BitsOfWord(n) == [i \in Slots |-> (n \div Pow2(i)) % 2 = 1]

\* ~FixedRecordDataPage: std::ofstream(path_, std::ios::binary) opens the file
\* for writing without std::ios::in, which truncates it to length 0; seekp to
\* page_offset_ and the writes then leave a file of page_offset_ + PAGE_SIZE
\* bytes that is zero before the page's image.
WritePage(f, pg) ==
  [ exists |-> TRUE,
    size |-> pg.page_offset_ + PAGE_SIZE,
    image |-> [o \in PageOffsets |-> IF o = pg.page_offset_ THEN Image(pg) ELSE ZeroImage] ]

\* ~BufferPool's body: the file is truncated and one header page is written.
\* The offsets that follow the count are left out of the image: the
\* constructor never puts them back into the vector (see BufferPoolOpen).
WriteHeader(f, pl) ==
  [ exists |-> TRUE,
    size |-> PAGE_SIZE,
    image |-> [o \in PageOffsets |->
                 IF o = 0
                 THEN [ next_page_offset_ |-> pl.empty_pages_start,
                        bitmap_ |-> BitsOfWord(Len(pl.discarded_page_offsets)),
                        record_data_ |-> [i \in Slots |-> ZeroRecord] ]
                 ELSE ZeroImage] ]

\* The constructor's read of a page image: it succeeds when the image lies
\* inside the file.
CanRead(f, offset) == f.exists /\ offset \in PageOffsets /\ offset + PAGE_SIZE <= f.size

ReadPage(f, offset) ==
  [ page_offset_ |-> offset,
    next_page_offset_ |-> f.image[offset].next_page_offset_,
    bitmap_ |-> f.image[offset].bitmap_,
    record_data_ |-> f.image[offset].record_data_ ]

(***************************************************************************)
(* BufferPool. pages_ is the LRU list, most recently used first; page_map_ *)
(* is its index by offset. A world w is the pool together with the file.   *)
(* pinned is the set of offsets whose page the caller holds a handle to    *)
(* (use_count() > 1). A result's status is "ok", "throw" (an exception     *)
(* reaches the caller), "hang" (the call never returns), "crash" (the      *)
(* process ends), "wild" (an offset that is no page-aligned offset was     *)
(* handed out; the model follows it no further) or "bound" (the file would *)
(* grow past MaxFilePages).                                                *)
(***************************************************************************)
\* max_pages, the constructor's argument
MAX_PAGES == 4
\* sizeof(uint), the width the header's offsets are written and read with
SIZEOF_UINT == 4

Resident(w, offset) == \E i \in 1..Len(w.pages_) : w.pages_[i].page_offset_ = offset
IndexOf(w, offset) == CHOOSE i \in 1..Len(w.pages_) : w.pages_[i].page_offset_ = offset
\* The page object a handle to offset refers to
PageAt(w, offset) == w.pages_[IndexOf(w, offset)]
RemoveAt(s, i) == SubSeq(s, 1, i - 1) \o SubSeq(s, i + 1, Len(s))
\* A change made to a page through a handle
UpdatePage(w, pg) == [w EXCEPT !.pages_[IndexOf(w, pg.page_offset_)] = pg]

PoolOut(w, status) == [ w |-> w, status |-> status ]

\* The hit of get_page: the page moves to the front of the list
Touch(w, i) == [w EXCEPT !.pages_ = <<w.pages_[i]>> \o RemoveAt(w.pages_, i)]

\* A scan that takes every resident page for one no caller holds
EveryPage(w, pinned) == 1..Len(w.pages_)
\* A scan that stops at the back of the list
BackOfList(w, pinned) == Len(w.pages_)

\* The eviction scan of get_page: from the back of the list to its front, the
\* first page no caller holds
Unpinned(w, pinned) == {i \in 1..Len(w.pages_) : w.pages_[i].page_offset_ \notin pinned}
Victim(w, pinned) == CHOOSE i \in Unpinned(w, pinned) : \A j \in Unpinned(w, pinned) : j <= i
\* The victim leaves the list and the map; its destructor writes it to the file
Evict(w, victim) ==
  [w EXCEPT !.pages_ = RemoveAt(w.pages_, victim),
            !.file = WritePage(w.file, w.pages_[victim])]

\* pages_.emplace_front(offset, make_shared<PageType>(path, offset, hint)): a
\* fresh page when the hint has a value, else the image read from the file
load_page(w, offset, hint) ==
  IF hint # {}
  THEN PoolOut([w EXCEPT !.pages_ = <<NewPage(offset, CHOOSE n \in hint : TRUE)>> \o @], "ok")
  ELSE IF ~CanRead(w.file, offset) THEN PoolOut(w, "throw")
  ELSE PoolOut([w EXCEPT !.pages_ = <<ReadPage(w.file, offset)>> \o @], "ok")

\* A get_page that loads without looking at the size of the list
get_page_unbounded(w, offset, hint, pinned) ==
  IF Resident(w, offset) THEN PoolOut(Touch(w, IndexOf(w, offset)), "ok")
  ELSE load_page(w, offset, hint)

\* BufferPool::get_page(offset, next_page_offset); hint is {} for std::nullopt
get_page(w, offset, hint, pinned) ==
  IF Resident(w, offset) THEN PoolOut(Touch(w, IndexOf(w, offset)), "ok")
  ELSE IF Len(w.pages_) # MAX_PAGES THEN load_page(w, offset, hint)
  ELSE IF Unpinned(w, pinned) = {} THEN PoolOut(w, "throw")
  ELSE load_page(Evict(w, Victim(w, pinned)), offset, hint)

\* The offset get_new_page decides on, with the pool and file after the decision
allocate(w) ==
  IF w.empty_pages_start + PAGE_SIZE <= w.file.size
  THEN [ offset |-> w.empty_pages_start,
         w |-> [w EXCEPT !.empty_pages_start = @ + PAGE_SIZE] ]
  ELSE IF w.discarded_page_offsets # <<>>
  THEN [ offset |-> w.discarded_page_offsets[Len(w.discarded_page_offsets)],
         w |-> [w EXCEPT !.discarded_page_offsets = SubSeq(@, 1, Len(@) - 1)] ]
  ELSE [ offset |-> w.file.size,
         w |-> [w EXCEPT !.file.size = w.file.size + PAGE_SIZE,
                         !.empty_pages_start = w.file.size + PAGE_SIZE] ]

NewPageOut(r, offset) == [ w |-> r.w, status |-> r.status, offset |-> offset ]

new_page_at(w, a, next_page_offset, pinned) ==
  IF a.offset \notin PageOffsets
  THEN [ w |-> w,
         status |-> IF a.offset = MaxFilePages * PAGE_SIZE THEN "bound" ELSE "wild",
         offset |-> a.offset ]
  ELSE NewPageOut(get_page(a.w, a.offset, {next_page_offset}, pinned), a.offset)

\* BufferPool::get_new_page(next_page_offset)
get_new_page(w, next_page_offset, pinned) ==
  new_page_at(w, allocate(w), next_page_offset, pinned)

\* pages_.remove(page) for the page at offset: the pool's reference goes, and
\* a page no caller holds is destroyed, which writes it to the file
Forget(w, offset, pinned) ==
  IF ~Resident(w, offset) THEN w
  ELSE IF offset \in pinned THEN [w EXCEPT !.pages_ = RemoveAt(w.pages_, IndexOf(w, offset))]
  ELSE [w EXCEPT !.pages_ = RemoveAt(w.pages_, IndexOf(w, offset)),
                 !.file = WritePage(w.file, PageAt(w, offset))]

\* A discard_page that does not look at the frontier
discard_to_list(w, offset, pinned) ==
  [Forget(w, offset, pinned) EXCEPT !.discarded_page_offsets = Append(@, offset)]

\* BufferPool::discard_page(offset)
discard_page(w, offset, pinned) ==
  IF offset + PAGE_SIZE = w.empty_pages_start
  THEN [Forget(w, offset, pinned) EXCEPT !.empty_pages_start = offset]
  ELSE [Forget(w, offset, pinned) EXCEPT !.discarded_page_offsets = Append(@, offset)]

\* BufferPool::BufferPool on a path with no file: a file of one (header) page
BufferPoolCreate ==
  [ pages_ |-> <<>>,
    empty_pages_start |-> PAGE_SIZE,
    discarded_page_offsets |-> <<>>,
    file |-> [ exists |-> TRUE, size |-> PAGE_SIZE, image |-> [o \in PageOffsets |-> ZeroImage] ] ]

\* BufferPool::BufferPool on an existing file: empty_pages_start and the count
\* are read from the first two words; the count * sizeof(uint) bytes that
\* follow are read into storage that reserve() set aside, so the vector stays
\* empty. The constructor throws when the file ends before those bytes.
BufferPoolOpenThrows(f) ==
  2 * SIZEOF_UINTMAX + WordOfBits(f.image[0].bitmap_, 0) * SIZEOF_UINT > f.size

BufferPoolOpen(f) ==
  [ pages_ |-> <<>>,
    empty_pages_start |-> f.image[0].next_page_offset_,
    discarded_page_offsets |-> <<>>,
    file |-> f ]

\* The pool's and its resident pages' destructors: the header is written, then
\* every resident page writes itself as the list is destroyed; last is the
\* page destroyed last (0 when no page is resident).
BufferPoolClose(w, last) ==
  IF last = 0 THEN WriteHeader(w.file, w)
  ELSE WritePage(WriteHeader(w.file, w), w.pages_[last])

(***************************************************************************)
(* The index tree (fc/btree.h). Its leaf level is a sorted list of         *)
(* separator keys keys_ and the list children_ of page descriptors:        *)
(* children_[1] is the branch for the keys below keys_[1], children_[i+1]  *)
(* the leaf whose separator is keys_[i]. A descriptor is a page index or   *)
(* PLACEHOLDER (no leaf yet). The empty tree has no descriptor.            *)
(***************************************************************************)
PLACEHOLDER == -1
EmptyTree == [ keys_ |-> <<>>, children_ |-> <<>> ]

\* Number of separators that compare below (at most) key
SeparatorsBelow(bt, key) ==
  Cardinality({i \in 1..Len(bt.keys_) : memcmp(bt.keys_[i], key, KEY_SIZE) < 0})
SeparatorsUpTo(bt, key) ==
  Cardinality({i \in 1..Len(bt.keys_) : memcmp(bt.keys_[i], key, KEY_SIZE) <= 0})

\* find_page(key): the descriptor whose range contains key - the leaf of the
\* last separator <= key, the leftmost branch when there is none. A result is
\* the descriptor's position in children_, 0 for the null node of an empty tree.
find_page(bt, key) ==
  IF bt.children_ = <<>> THEN 0 ELSE SeparatorsUpTo(bt, key) + 1

\* find_page_lb(key): the lower-bound variant - the leaf of the first
\* separator equal to key when there is one, else as find_page.
find_page_lb(bt, key) ==
  IF bt.children_ = <<>> THEN 0
  ELSE IF \E i \in 1..Len(bt.keys_) : bt.keys_[i] = key
  THEN SeparatorsBelow(bt, key) + 2
  ELSE SeparatorsUpTo(bt, key) + 1

\* btree_it.get_next_page(): the position of the descriptor after pos, 0 for null
get_next_page(bt, pos) ==
  IF pos + 1 <= Len(bt.children_) THEN pos + 1 ELSE 0

InsertAt(s, i, e) == SubSeq(s, 1, i - 1) \o <<e>> \o SubSeq(s, i, Len(s))

\* insert_page(key, page_index): a new separator with its leaf, after the
\* separators <= key; the first separator of a tree comes with a placeholder
\* for the branch left of it; a set rejects a key it already holds.
insert_page(bt, key, page_index, allow_dup) ==
  IF bt.children_ = <<>>
  THEN [ keys_ |-> <<key>>, children_ |-> <<PLACEHOLDER, page_index>> ]
  ELSE IF ~allow_dup /\ \E i \in 1..Len(bt.keys_) : bt.keys_[i] = key THEN bt
  ELSE LET p == SeparatorsUpTo(bt, key) IN
       [ keys_ |-> InsertAt(bt.keys_, p + 1, key),
         children_ |-> InsertAt(bt.children_, p + 2, page_index) ]

(***************************************************************************)
(* DBBTree. An engine state st is a world (pool and file) with the index   *)
(* btree_. A cursor is the offset of the page its handle refers to and a   *)
(* slot index.                                                             *)
(***************************************************************************)
\* extract_key copies the whole record into the KEY_SIZE-byte key: the key's
\* bytes are the record's first KEY_SIZE bytes, and RECORD_SIZE - KEY_SIZE
\* bytes are written past the key's end.
extract_key(record) == [i \in 1..KEY_SIZE |-> record[i]]
ExtractKeyOverflows == RECORD_SIZE > KEY_SIZE

translated_offset(page_index) == page_index * PAGE_SIZE
translated_index(offset) == offset \div PAGE_SIZE

Cursor(offset, index) == [ offset |-> offset, index |-> index ]
\* The cursor end() makes on an empty index
NoCursor == Cursor(U64MAX, RECORD_COUNT)
Out(st, status, cursor) == [ st |-> st, status |-> status, cursor |-> cursor ]
\* A pool result r as the result of a call that returns cursor
CursorOut(r, cursor) == Out(r.w, r.status, cursor)

\* make_it(page, page->end()) for the page of descriptor page_index
end_of(st, page_index, pinned) ==
  IF page_index < 0 THEN Out(st, "throw", NoCursor)
  ELSE CursorOut(get_page(st, translated_offset(page_index), {}, pinned),
                 Cursor(translated_offset(page_index), RECORD_COUNT))

\* DBBTree::end(): the end of the page of the last descriptor
end(st, pinned) ==
  IF st.btree_.children_ = <<>> THEN Out(st, "ok", NoCursor)
  ELSE end_of(st, st.btree_.children_[Len(st.btree_.children_)], pinned)

begin_of(st, page_index) ==
  IF page_index < 0 THEN Out(st, "throw", NoCursor)
  ELSE CursorOut(get_page(st, translated_offset(page_index), {}, {}),
                 Cursor(translated_offset(page_index), 0))

\* DBBTree::begin(): slot 0 of the page of the first descriptor
begin(st) ==
  IF st.btree_.children_ = <<>> THEN Out(st, "ok", NoCursor)
  ELSE begin_of(st, st.btree_.children_[1])

\* The page change of increment(): noexcept, so an exception of get_page ends
\* the process.
next_page(r, it, next_page_offset) ==
  IF r.status = "ok" THEN Out(r.w, "ok", Cursor(next_page_offset, 0))
  ELSE Out(r.w, "crash", it)

increment_to(st, it, next_page_offset, pinned) ==
  IF next_page_offset = U64MAX THEN Out(st, "ok", Cursor(it.offset, RECORD_COUNT))
  ELSE next_page(get_page(st, next_page_offset, {}, pinned \cup {it.offset}), it, next_page_offset)

\* DBBTreeIterator::increment(); pinned are the pages other live cursors hold
increment(st, it, pinned) ==
  IF it.index + 1 # RECORD_COUNT THEN Out(st, "ok", Cursor(it.offset, it.index + 1))
  ELSE increment_to(st, it, PageAt(st, it.offset).next_page_offset_, pinned)

\* DBBTree::search_lb from the page's search_lb on: page_it is its result
search_lb_in(st, offset, page_it) ==
  IF ~page_it.returns THEN Out(st, "hang", NoCursor)
  ELSE IF page_it.index = RECORD_COUNT THEN end(st, {offset})
  ELSE Out(st, "ok", Cursor(offset, page_it.index))

search_lb_on(r, offset, key) ==
  IF r.status # "ok" THEN Out(r.w, r.status, NoCursor)
  ELSE search_lb_in(r.w, offset, search_lb(PageAt(r.w, offset), key))

search_lb_at(st, pos, key) ==
  IF pos = 0 THEN Out(st, "crash", NoCursor)
  ELSE IF st.btree_.children_[pos] < 0 THEN Out(st, "throw", NoCursor)
  ELSE search_lb_on(get_page(st, translated_offset(st.btree_.children_[pos]), {}, {}),
                    translated_offset(st.btree_.children_[pos]), key)

\* DBBTree::search_lb(key): node->page_index_ is read whether or not
\* find_page_lb found a node
engine_search_lb(st, key) == search_lb_at(st, find_page_lb(st.btree_, key), key)

\* Bound on the steps of a cursor loop that the model follows; a loop that
\* comes back to a state it was in never ends.
MaxSteps == 2 * MaxFilePages * (RECORD_COUNT + 1)

\* The loop of DBBTree::search: lb is compared with end() and its record with
\* the argument; seen holds the loop's earlier states. e is the result of
\* end(), ret of memcmp, n of ++lb.
RECURSIVE search_loop(_, _, _, _, _)
search_next(n, record, seen, fuel) ==
  IF n.status # "ok" THEN n
  ELSE search_loop(n.st, record, n.cursor, seen, fuel)

search_compare(st, record, lb, ret, seen, fuel) ==
  IF ret = 0 THEN Out(st, "ok", lb)
  ELSE IF ret > 0 THEN end(st, {lb.offset})
  ELSE search_next(increment(st, lb, {}), record, seen \cup {<<st, lb>>}, fuel - 1)

search_body(e, record, lb, seen, fuel) ==
  IF e.status # "ok" THEN e
  ELSE IF lb = e.cursor THEN e
  ELSE IF <<e.st, lb>> \in seen THEN Out(e.st, "hang", lb)
  ELSE IF fuel = 0 THEN Out(e.st, "wild", lb)
  ELSE IF lb.index >= RECORD_COUNT THEN Out(e.st, "crash", lb)
  ELSE search_compare(e.st, record, lb,
                      memcmp(record, PageAt(e.st, lb.offset).record_data_[lb.index], RECORD_SIZE),
                      seen, fuel)

search_loop(st, record, lb, seen, fuel) ==
  search_body(end(st, {lb.offset}), record, lb, seen, fuel)

search_from(lb, record) ==
  IF lb.status # "ok" THEN lb
  ELSE search_loop(lb.st, record, lb.cursor, {}, MaxSteps)

\* DBBTree::search(record)
engine_search(st, record) ==
  search_from(engine_search_lb(st, extract_key(record)), record)

FindOut(st, status, offset) == [ st |-> st, status |-> status, offset |-> offset ]
FindOutOf(r, offset) == FindOut(r.w, r.status, offset)

\* insert: the tree is empty, a new page gets the first separator
insert_first_page(r, bt, key, allow_dup) ==
  IF r.status # "ok" THEN FindOut(r.w, r.status, r.offset)
  ELSE FindOut([r.w EXCEPT !.btree_ = insert_page(bt, key, translated_index(r.offset), allow_dup)],
               "ok", r.offset)

\* insert: the descriptor is a placeholder, a new page takes its place
insert_placeholder_page(r, pos) ==
  IF r.status # "ok" THEN FindOut(r.w, r.status, r.offset)
  ELSE FindOut([r.w EXCEPT !.btree_.children_[pos] = translated_index(r.offset)], "ok", r.offset)

insert_find_page_at(st, key, pos, next_page_offset, allow_dup) ==
  IF pos = 0
  THEN insert_first_page(get_new_page(st, next_page_offset, {}), st.btree_, key, allow_dup)
  ELSE IF st.btree_.children_[pos] < 0
  THEN insert_placeholder_page(get_new_page(st, next_page_offset, {}), pos)
  ELSE FindOutOf(get_page(st, translated_offset(st.btree_.children_[pos]), {}, {}),
                 translated_offset(st.btree_.children_[pos]))

insert_find_next(st, key, pos, next_pos, allow_dup) ==
  IF next_pos = 0 THEN insert_find_page_at(st, key, pos, U64MAX, allow_dup)
  ELSE IF st.btree_.children_[next_pos] < 0 THEN FindOut(st, "throw", 0)
  ELSE insert_find_page_at(st, key, pos, translated_offset(st.btree_.children_[next_pos]), allow_dup)

\* DBBTree::insert up to "if (page->is_full())": the page the index names for
\* the record's key, made through get_new_page when the tree is empty or the
\* descriptor is a placeholder.
insert_find_page(st, key, allow_dup) ==
  insert_find_next(st, key, find_page_lb(st.btree_, key),
                   get_next_page(st.btree_, find_page_lb(st.btree_, key)), allow_dup)

\* The split of DBBTree::insert once get_new_page returned s.left and s.right
\* (s.page when they are one object): the new page gets a separator, and the
\* record goes to the new page when it is >= mid_val.
insert_split_self(w, pg, page_offset, allow_dup) ==
  FindOut([UpdatePage(w, pg) EXCEPT
             !.btree_ = insert_page(w.btree_, extract_key(min_record(pg)),
                                    translated_index(page_offset), allow_dup)],
          "ok", page_offset)

insert_split_two(w, s, record, allow_dup) ==
  FindOut([UpdatePage(UpdatePage(w, s.left), s.right) EXCEPT
             !.btree_ = insert_page(w.btree_, extract_key(s.mid_val),
                                    translated_index(s.right.page_offset_), allow_dup)],
          "ok",
          IF memcmp(record, s.mid_val, RECORD_SIZE) >= 0
          THEN s.right.page_offset_ ELSE s.left.page_offset_)

insert_split_with(r, page_offset, record, allow_dup) ==
  IF r.status # "ok" THEN FindOut(r.w, r.status, page_offset)
  ELSE IF r.offset = page_offset
  THEN insert_split_self(r.w, split_with_self(PageAt(r.w, page_offset)), page_offset, allow_dup)
  ELSE insert_split_two(r.w, split_with(PageAt(r.w, page_offset), PageAt(r.w, r.offset)),
                        record, allow_dup)

insert_split(st, page_offset, record, allow_dup) ==
  insert_split_with(get_new_page(st, PageAt(st, page_offset).next_page_offset_, {page_offset}),
                    page_offset, record, allow_dup)

InsertOut(st, status, cursor, inserted) ==
  [ st |-> st, status |-> status, cursor |-> cursor, inserted |-> inserted ]

\* page->insert(record, AllowDup) and the returned pair
insert_record(st, offset, r) ==
  IF ~r.returns THEN InsertOut(st, "hang", NoCursor, FALSE)
  ELSE InsertOut(UpdatePage(st, r.page), "ok", Cursor(offset, r.index), r.inserted)

insert_into(b, record, allow_dup) ==
  IF b.status # "ok" THEN InsertOut(b.st, b.status, NoCursor, FALSE)
  ELSE insert_record(b.st, b.offset, insert(PageAt(b.st, b.offset), record, allow_dup))

insert_after_find(a, record, allow_dup) ==
  IF a.status # "ok" THEN InsertOut(a.st, a.status, NoCursor, FALSE)
  ELSE IF is_full(PageAt(a.st, a.offset))
  THEN insert_into(insert_split(a.st, a.offset, record, allow_dup), record, allow_dup)
  ELSE insert_into(a, record, allow_dup)

\* DBBTree::insert(record)
engine_insert(st, record, allow_dup) ==
  insert_after_find(insert_find_page(st, extract_key(record), allow_dup), record, allow_dup)

ScanOut(st, status, visited) == [ st |-> st, status |-> status, visited |-> visited ]

\* The slot a cursor stands on: the record read and whether the slot is occupied
Visit(pg, index) == [ record |-> pg.record_data_[index], occupied |-> pg.bitmap_[index] ]

\* for (it = begin(); it != end(); ++it) visit(*it): visited lists the slots
\* the cursor stood on. e is the result of end(), n of ++it.
RECURSIVE scan_loop(_, _, _, _, _)
scan_next(n, visited, seen, fuel) ==
  IF n.status # "ok" THEN ScanOut(n.st, n.status, visited)
  ELSE scan_loop(n.st, n.cursor, visited, seen, fuel)

scan_body(e, it, visited, seen, fuel) ==
  IF e.status # "ok" THEN ScanOut(e.st, e.status, visited)
  ELSE IF it = e.cursor THEN ScanOut(e.st, "ok", visited)
  ELSE IF <<e.st, it>> \in seen THEN ScanOut(e.st, "hang", visited)
  ELSE IF fuel = 0 THEN ScanOut(e.st, "wild", visited)
  ELSE IF it.index >= RECORD_COUNT THEN ScanOut(e.st, "crash", visited)
  ELSE scan_next(increment(e.st, it, {}),
                 Append(visited, Visit(PageAt(e.st, it.offset), it.index)),
                 seen \cup {<<e.st, it>>}, fuel - 1)

scan_loop(st, it, visited, seen, fuel) ==
  scan_body(end(st, {it.offset}), it, visited, seen, fuel)

scan_from(b) ==
  IF b.status # "ok" THEN ScanOut(b.st, b.status, <<>>)
  ELSE scan_loop(b.st, b.cursor, <<>>, {}, MaxSteps)

scan(st) == scan_from(begin(st))

(***************************************************************************)
(* State. page is a FixedRecordDataPage driven directly by its public      *)
(* operations; op, arg, ret and ok record the last call: its name, its     *)
(* argument, the index of the returned iterator and the boolean it         *)
(* returned (insert) or whether a bit was cleared (erase); hung is set     *)
(* when the call never returns.                                            *)
(* The other variables are an engine: AllowDup is its template argument,   *)
(* pages_, empty_pages_start and discarded_page_offsets its BufferPool,    *)
(* file the page file, btree_ the index and btree_file the index file.     *)
(* phase is "open" while the engine object lives, "closed" after a         *)
(* constructor threw, "stuck" when a call did not return or the model      *)
(* follows the run no further, "none" when there is no engine. out is the  *)
(* last engine call's result and stored the bag of the records whose       *)
(* insert returned true.                                                   *)
(* The last variables belong to a caller that drives a BufferPool          *)
(* directly: handles is the set of offsets whose resident page the caller  *)
(* holds a handle to, live the set of offsets get_new_page returned that   *)
(* were not discarded since, call the last pool call (its offset, its      *)
(* hint, its outcome, whether the handle was kept, and the number n of     *)
(* calls made so far), and allocs the offsets returned so far while plain  *)
(* holds: every call since the pool's construction was a get_new_page      *)
(* whose handle was dropped at once.                                       *)
(***************************************************************************)
VARIABLES page, op, arg, ret, ok, hung,
          AllowDup, pages_, empty_pages_start, discarded_page_offsets, file,
          btree_, btree_file, phase, out, stored,
          handles, live, call, allocs, plain,
          page2

pagevars == <<page, ret, ok, hung, page2>>
enginevars == <<AllowDup, pages_, empty_pages_start, discarded_page_offsets, file,
                btree_, btree_file, phase, out, stored>>
callervars == <<handles, live, call, allocs, plain>>
vars == <<page, op, arg, ret, ok, hung,
          AllowDup, pages_, empty_pages_start, discarded_page_offsets, file,
          btree_, btree_file, phase, out, stored,
          handles, live, call, allocs, plain,
          page2>>

NoOut == [ status |-> "ok", cursor |-> NoCursor, inserted |-> FALSE, visited |-> <<>> ]
NoneStored == [r \in Record |-> 0]

\* No engine: the values the engine's variables have while only the page is driven
NoEngine ==
  /\ AllowDup = FALSE
  /\ pages_ = <<>>
  /\ empty_pages_start = 0
  /\ discarded_page_offsets = <<>>
  /\ file = NoFile
  /\ btree_ = EmptyTree
  /\ btree_file = EmptyTree
  /\ phase = "none"
  /\ out = NoOut
  /\ stored = NoneStored

NoCall == [ offset |-> 0, hint |-> 0, status |-> "ok", keep |-> FALSE, n |-> 0 ]

\* No caller of the pool
NoCaller ==
  /\ handles = {}
  /\ live = {}
  /\ call = NoCall
  /\ allocs = <<>>
  /\ plain = FALSE

\* No second page: only one page, or the engine, is driven
NoSibling == page2 = NewPage(2 * PAGE_SIZE, U64MAX)

Init ==
  /\ page = NewPage(PAGE_SIZE, U64MAX)
  /\ op = "new"
  /\ arg = ZeroRecord
  /\ ret = 0
  /\ ok = FALSE
  /\ hung = FALSE
  /\ NoEngine
  /\ NoCaller
  /\ NoSibling

Insert(record, allow_dup) ==
  /\ ~hung
  /\ LET r == insert(page, record, allow_dup) IN
       /\ page' = r.page
       /\ op' = IF allow_dup THEN "insert_dup" ELSE "insert_nodup"
       /\ arg' = record
       /\ ret' = r.index
       /\ ok' = r.inserted
       /\ hung' = ~r.returns
  /\ UNCHANGED enginevars
  /\ UNCHANGED callervars
  /\ UNCHANGED page2

EraseIter(index) ==
  /\ ~hung
  /\ LET r == erase_index(page, index) IN
       /\ page' = r.page
       /\ op' = "erase_iter"
       /\ arg' = page.record_data_[index]
       /\ ret' = r.index
       /\ ok' = (r.index # RECORD_COUNT)
       /\ hung' = FALSE
  /\ UNCHANGED enginevars
  /\ UNCHANGED callervars
  /\ UNCHANGED page2

EraseRecord(record) ==
  /\ ~hung
  /\ LET r == erase_record(page, record) IN
       /\ page' = r.page
       /\ op' = "erase_record"
       /\ arg' = record
       /\ ret' = r.index
       /\ ok' = (r.returns /\ r.index # RECORD_COUNT)
       /\ hung' = ~r.returns
  /\ UNCHANGED enginevars
  /\ UNCHANGED callervars
  /\ UNCHANGED page2

Next ==
  \/ \E record \in Record, allow_dup \in BOOLEAN : Insert(record, allow_dup)
  \/ \E index \in Slots : EraseIter(index)
  \/ \E record \in Record : EraseRecord(record)

Spec == Init /\ [][Next]_vars

(***************************************************************************)
(* The engine: a DBBTree constructed on a path where no file exists yet,   *)
(* then driven by insert, search, a begin()-to-end() iteration, and by     *)
(* destroying it and constructing a new engine on the same files.          *)
(***************************************************************************)
\* Bound on the number of records inserted into an engine.
MaxInserts == 5

\* The engine state the operators work on
EngineState ==
  [ pages_ |-> pages_,
    empty_pages_start |-> empty_pages_start,
    discarded_page_offsets |-> discarded_page_offsets,
    file |-> file,
    btree_ |-> btree_ ]

SetEngineState(st) ==
  /\ pages_' = st.pages_
  /\ empty_pages_start' = st.empty_pages_start
  /\ discarded_page_offsets' = st.discarded_page_offsets
  /\ file' = st.file
  /\ btree_' = st.btree_

\* The number of records in the bag b over the records of S
RECURSIVE BagCount(_, _)
BagCount(b, S) ==
  IF S = {} THEN 0
  ELSE LET r == CHOOSE r \in S : TRUE IN b[r] + BagCount(b, S \ {r})
StoredCount == BagCount(stored, Record)

\* DBBTree::DBBTree on paths without files: a pool on a new page file and an
\* empty index
EngineInit ==
  /\ page = NewPage(PAGE_SIZE, U64MAX)
  /\ op = "open"
  /\ arg = ZeroRecord
  /\ ret = 0
  /\ ok = FALSE
  /\ hung = FALSE
  /\ AllowDup \in BOOLEAN
  /\ pages_ = BufferPoolCreate.pages_
  /\ empty_pages_start = BufferPoolCreate.empty_pages_start
  /\ discarded_page_offsets = BufferPoolCreate.discarded_page_offsets
  /\ file = BufferPoolCreate.file
  /\ btree_ = EmptyTree
  /\ btree_file = EmptyTree
  /\ phase = "open"
  /\ out = NoOut
  /\ stored = NoneStored
  /\ NoCaller
  /\ NoSibling

\* The call ended the run: the process is gone or never comes back.
Stuck(name, record, status) ==
  /\ op' = name
  /\ arg' = record
  /\ phase' = "stuck"
  /\ out' = [NoOut EXCEPT !.status = status]
  /\ pages_' = <<>>
  /\ empty_pages_start' = 0
  /\ discarded_page_offsets' = <<>>
  /\ file' = NoFile
  /\ btree_' = EmptyTree
  /\ btree_file' = EmptyTree
  /\ stored' = NoneStored
  /\ UNCHANGED <<AllowDup, pagevars, callervars>>

EndsRun(status) == status \in {"hang", "crash", "wild"}

\* The state after insert returned r
InsertDone(record, r) ==
  /\ r.status # "bound"
  /\ IF EndsRun(r.status) THEN Stuck("engine_insert", record, r.status)
     ELSE /\ SetEngineState(r.st)
          /\ op' = "engine_insert"
          /\ arg' = record
          /\ out' = [NoOut EXCEPT !.status = r.status, !.cursor = r.cursor,
                                  !.inserted = r.inserted]
          /\ stored' = IF r.inserted THEN [stored EXCEPT ![record] = @ + 1] ELSE stored
          /\ UNCHANGED <<AllowDup, btree_file, phase, pagevars, callervars>>

\* insert(record). smashed: the bytes extract_key writes past the key's end
\* hit something the call needs, and the process ends.
EngineInsert(record, smashed) ==
  /\ phase = "open"
  /\ StoredCount < MaxInserts
  /\ IF smashed /\ ExtractKeyOverflows THEN Stuck("engine_insert", record, "crash")
     ELSE InsertDone(record, engine_insert(EngineState, record, AllowDup))

SearchDone(record, r) ==
  IF EndsRun(r.status) THEN Stuck("engine_search", record, r.status)
  ELSE /\ SetEngineState(r.st)
       /\ op' = "engine_search"
       /\ arg' = record
       /\ out' = [NoOut EXCEPT !.status = r.status, !.cursor = r.cursor]
       /\ UNCHANGED <<AllowDup, btree_file, phase, stored, pagevars, callervars>>

\* search(record)
EngineSearch(record, smashed) ==
  /\ phase = "open"
  /\ IF smashed /\ ExtractKeyOverflows THEN Stuck("engine_search", record, "crash")
     ELSE SearchDone(record, engine_search(EngineState, record))

ScanDone(r) ==
  IF EndsRun(r.status) THEN Stuck("scan", ZeroRecord, r.status)
  ELSE /\ SetEngineState(r.st)
       /\ op' = "scan"
       /\ arg' = ZeroRecord
       /\ out' = [NoOut EXCEPT !.status = r.status, !.visited = r.visited]
       /\ UNCHANGED <<AllowDup, btree_file, phase, stored, pagevars, callervars>>

\* for (it = begin(); it != end(); ++it)
Scan ==
  /\ phase = "open"
  /\ ScanDone(scan(EngineState))

\* The new engine on the page file f: its constructor throws or it is open
Reopened(f) ==
  IF BufferPoolOpenThrows(f)
  THEN /\ phase' = "closed"
       /\ out' = [NoOut EXCEPT !.status = "throw"]
       /\ pages_' = <<>>
       /\ empty_pages_start' = 0
       /\ discarded_page_offsets' = <<>>
       /\ file' = f
       /\ btree_' = EmptyTree
  ELSE /\ phase' = "open"
       /\ out' = NoOut
       /\ pages_' = BufferPoolOpen(f).pages_
       /\ empty_pages_start' = BufferPoolOpen(f).empty_pages_start
       /\ discarded_page_offsets' = BufferPoolOpen(f).discarded_page_offsets
       /\ file' = f
       /\ btree_' = btree_

\* ~DBBTree writes the index file, then the pool and its pages are destroyed;
\* DBBTree::DBBTree on the same paths reads the pool's header and the index
\* file. last is the resident page whose destructor runs last.
Reopen(last) ==
  /\ phase = "open"
  /\ last <= Len(pages_)
  /\ (pages_ = <<>>) = (last = 0)
  /\ btree_file' = btree_
  /\ op' = "reopen"
  /\ arg' = ZeroRecord
  /\ Reopened(BufferPoolClose(EngineState, last))
  /\ UNCHANGED <<AllowDup, stored, pagevars, callervars>>

EngineNext ==
  \/ \E record \in Record, smashed \in BOOLEAN : EngineInsert(record, smashed)
  \/ \E record \in Record, smashed \in BOOLEAN : EngineSearch(record, smashed)
  \/ Scan
  \/ \E last \in 0..MAX_PAGES : Reopen(last)

EngineSpec == EngineInit /\ [][EngineNext]_vars


(***************************************************************************)
(* One page and its file, as the serialization test drives them: a page    *)
(* constructed with a next-page hint at the file's second page, filled and *)
(* emptied through insert and erase, then destroyed (which writes it to    *)
(* the file) and constructed again from the same path and offset without a *)
(* hint (which reads it back).                                             *)
(***************************************************************************)
\* get_new_pages_file(page_count): an existing file of page_count + 1 zero pages
get_new_pages_file(page_count) ==
  [ exists |-> TRUE,
    size |-> PAGE_SIZE * (page_count + 1),
    image |-> [o \in PageOffsets |-> ZeroImage] ]

PageFileInit ==
  /\ page = NewPage(PAGE_SIZE, 2 * PAGE_SIZE)
  /\ op = "new"
  /\ arg = ZeroRecord
  /\ ret = 0
  /\ ok = FALSE
  /\ hung = FALSE
  /\ AllowDup = FALSE
  /\ pages_ = <<>>
  /\ empty_pages_start = 0
  /\ discarded_page_offsets = <<>>
  /\ file = get_new_pages_file(2)
  /\ btree_ = EmptyTree
  /\ btree_file = EmptyTree
  /\ phase = "none"
  /\ out = NoOut
  /\ stored = NoneStored
  /\ NoCaller
  /\ NoSibling

\* The page constructed from the file f at offset without a hint; ok tells
\* whether the constructor's read succeeded (it throws when it did not)
Reloaded(f, offset) ==
  /\ file' = f
  /\ ok' = CanRead(f, offset)
  /\ page' = IF CanRead(f, offset) THEN ReadPage(f, offset) ELSE page

\* The page goes out of scope and a page is constructed from its path and offset
Reload ==
  /\ ~hung
  /\ op # "reload"
  /\ op' = "reload"
  /\ arg' = ZeroRecord
  /\ Reloaded(WritePage(file, page), page.page_offset_)
  /\ UNCHANGED <<ret, hung, AllowDup, pages_, empty_pages_start, discarded_page_offsets,
                 btree_, btree_file, phase, out, stored, callervars,
                 page2>>

\* The test ends after the second page was compared with the first.
PageFileNext ==
  \/ op # "reload" /\ \E record \in Record, allow_dup \in BOOLEAN : Insert(record, allow_dup)
  \/ op # "reload" /\ \E index \in Slots : EraseIter(index)
  \/ Reload

PageFileSpec == PageFileInit /\ [][PageFileNext]_vars

(***************************************************************************)
(* A BufferPool driven directly, as the pool test drives it: constructed   *)
(* on a path with no file, then get_new_page, get_page, discard_page, the  *)
(* caller's handles going out of scope, a record inserted through a        *)
(* handle, and the pool destroyed and constructed again on its file.       *)
(***************************************************************************)
\* The next-page hints the caller passes to get_new_page
Hints == {2 * PAGE_SIZE, U64MAX}
\* The records the caller inserts through a handle
PoolRecords == {MakeRecord(1, 1)}
\* Bound on the length of discarded_page_offsets.
MaxDiscarded == 2
\* Bound on the number of calls the caller makes.
MaxCalls == 6

PoolInit ==
  /\ page = NewPage(PAGE_SIZE, U64MAX)
  /\ op = "pool_new"
  /\ arg = ZeroRecord
  /\ ret = 0
  /\ ok = FALSE
  /\ hung = FALSE
  /\ AllowDup = FALSE
  /\ pages_ = BufferPoolCreate.pages_
  /\ empty_pages_start = BufferPoolCreate.empty_pages_start
  /\ discarded_page_offsets = BufferPoolCreate.discarded_page_offsets
  /\ file = BufferPoolCreate.file
  /\ btree_ = EmptyTree
  /\ btree_file = EmptyTree
  /\ phase = "pool"
  /\ out = NoOut
  /\ stored = NoneStored
  /\ handles = {}
  /\ live = {}
  /\ call = NoCall
  /\ allocs = <<>>
  /\ plain = TRUE
  /\ NoSibling

\* What no pool call changes
PoolFrame == UNCHANGED <<arg, AllowDup, btree_file, phase, out, stored, pagevars>>

\* The run of get_new_page calls is over
NotPlain ==
  /\ allocs' = <<>>
  /\ plain' = FALSE

\* The state after get_page(offset) returned r; the caller keeps the handle or
\* lets it go at once
GetPageDone(offset, keep, r) ==
  /\ SetEngineState(r.w)
  /\ op' = "get_page"
  /\ call' = [ offset |-> offset, hint |-> 0, status |-> r.status, keep |-> keep, n |-> call.n + 1 ]
  /\ handles' = IF r.status = "ok" /\ keep THEN handles \cup {offset} ELSE handles
  /\ live' = live
  /\ NotPlain
  /\ PoolFrame

\* get_page(offset) for an offset the pool handed to the caller
PoolGetPage(offset, keep) ==
  /\ phase = "pool"
  /\ call.n < MaxCalls
  /\ offset \in live
  /\ GetPageDone(offset, keep, get_page(EngineState, offset, {}, handles))

\* The state after get_new_page returned r
GetNewPageDone(hint, keep, r) ==
  /\ r.status \in {"ok", "throw"}
  /\ SetEngineState(r.w)
  /\ op' = "get_new_page"
  /\ call' = [ offset |-> r.offset, hint |-> hint, status |-> r.status, keep |-> keep, n |-> call.n + 1 ]
  /\ handles' = IF r.status = "ok" /\ keep THEN handles \cup {r.offset} ELSE handles
  /\ live' = IF r.status = "ok" THEN live \cup {r.offset} ELSE live
  /\ allocs' = IF plain /\ r.status = "ok" /\ ~keep THEN Append(allocs, r.offset) ELSE <<>>
  /\ plain' = (plain /\ r.status = "ok" /\ ~keep)
  /\ PoolFrame

\* get_new_page(hint)
PoolGetNewPage(hint, keep) ==
  /\ phase = "pool"
  /\ call.n < MaxCalls
  /\ GetNewPageDone(hint, keep, get_new_page(EngineState, hint, handles))

\* The state after discard_page(offset) left the world w: a caller that still
\* held the page lets it go, and the page is destroyed
DiscardDone(offset, w) ==
  /\ SetEngineState(IF offset \in handles
                    THEN [w EXCEPT !.file = WritePage(w.file, PageAt(EngineState, offset))]
                    ELSE w)
  /\ op' = "discard_page"
  /\ call' = [ offset |-> offset, hint |-> 0, status |-> "ok", keep |-> FALSE, n |-> call.n + 1 ]
  /\ handles' = handles \ {offset}
  /\ live' = live \ {offset}
  /\ NotPlain
  /\ PoolFrame

\* discard_page(offset) for an offset the pool handed to the caller
PoolDiscardPage(offset) ==
  /\ phase = "pool"
  /\ call.n < MaxCalls
  /\ offset \in live
  /\ Len(discarded_page_offsets) < MaxDiscarded
  /\ DiscardDone(offset, discard_page(EngineState, offset, handles))

\* A handle goes out of scope; the pool keeps the page
PoolDrop(offset) ==
  /\ phase = "pool"
  /\ call.n < MaxCalls
  /\ offset \in handles
  /\ handles' = handles \ {offset}
  /\ op' = "drop"
  /\ call' = [ offset |-> offset, hint |-> 0, status |-> "ok", keep |-> FALSE, n |-> call.n + 1 ]
  /\ live' = live
  /\ NotPlain
  /\ PoolFrame
  /\ UNCHANGED <<pages_, empty_pages_start, discarded_page_offsets, file, btree_>>

\* page->insert(record) through a handle
PoolWrite(offset, record) ==
  /\ phase = "pool"
  /\ call.n < MaxCalls
  /\ offset \in handles
  /\ insert(PageAt(EngineState, offset), record, FALSE).returns
  /\ SetEngineState(UpdatePage(EngineState, insert(PageAt(EngineState, offset), record, FALSE).page))
  /\ op' = "write"
  /\ call' = [ offset |-> offset, hint |-> 0, status |-> "ok", keep |-> TRUE, n |-> call.n + 1 ]
  /\ handles' = handles
  /\ live' = live
  /\ NotPlain
  /\ PoolFrame

\* The pool constructed on the file f its predecessor left
PoolReopened(f) ==
  /\ SetEngineState([EngineState EXCEPT
                       !.pages_ = <<>>,
                       !.empty_pages_start =
                          IF BufferPoolOpenThrows(f) THEN 0 ELSE BufferPoolOpen(f).empty_pages_start,
                       !.discarded_page_offsets = <<>>,
                       !.file = f])
  /\ phase' = IF BufferPoolOpenThrows(f) THEN "closed" ELSE "reopened"
  /\ call' = [ offset |-> 0,
               hint |-> 0,
               status |-> IF BufferPoolOpenThrows(f) THEN "throw" ELSE "ok",
               keep |-> FALSE, n |-> call.n + 1 ]

\* The pool is destroyed while the caller holds no handle, and a pool is
\* constructed on the same path; last is the resident page destroyed last.
\* The new pool is followed no further.
PoolReopen(last) ==
  /\ phase = "pool"
  /\ call.n < MaxCalls
  /\ handles = {}
  /\ last <= Len(pages_)
  /\ (pages_ = <<>>) = (last = 0)
  /\ op' = "pool_reopen"
  /\ PoolReopened(BufferPoolClose(EngineState, last))
  /\ handles' = handles
  /\ live' = live
  /\ NotPlain
  /\ UNCHANGED <<arg, AllowDup, btree_file, out, stored, pagevars>>

PoolNext ==
  \/ \E offset \in PageOffsets, keep \in BOOLEAN : PoolGetPage(offset, keep)
  \/ \E hint \in Hints, keep \in BOOLEAN : PoolGetNewPage(hint, keep)
  \/ \E offset \in PageOffsets : PoolDiscardPage(offset)
  \/ \E offset \in PageOffsets : PoolDrop(offset)
  \/ \E offset \in PageOffsets, record \in PoolRecords : PoolWrite(offset, record)
  \/ \E last \in 0..MAX_PAGES : PoolReopen(last)

PoolSpec == PoolInit /\ [][PoolNext]_vars


(***************************************************************************)
(* merge_with and borrow_from, and two sibling pages driven directly as in *)
(* test_page_split, test_page_merge and test_page_borrow: page is the left *)
(* page (page1), page2 the right one.                                      *)
(***************************************************************************)

\* The statements of merge_with after both solidify() calls, for the left
\* page: std::copy writes the whole record array of the right page to the
\* left array from slot left_empty_start on (the slots of the left array that
\* it reaches are listed here; the bytes beyond them are merge_overflow), the
\* bits left_empty_start .. left_empty_start + right->size() - 1 are set and
\* the left page takes over the right page's next offset.
merge_left(lsol, rsol, left_empty_start) ==
  [lsol EXCEPT
     !.record_data_ = [i \in Slots |->
                         IF i >= left_empty_start
                         THEN rsol.record_data_[i - left_empty_start]
                         ELSE lsol.record_data_[i]],
     !.bitmap_ = [i \in Slots |->
                    lsol.bitmap_[i]
                      \/ (i >= left_empty_start /\ i < left_empty_start + size(rsol))],
     !.next_page_offset_ = rsol.next_page_offset_]

\* right_sibling_self->bitmap_->reset() on the solidified right page
merge_right(rsol) == [rsol EXCEPT !.bitmap_ = [i \in Slots |-> FALSE]]

\* The number of bytes std::copy writes past the end of the left page's
\* record array in merge_with: the destination starts left_empty_start
\* records into the array and the source is a whole array
merge_overflow(left) == solidify(left).dest_index * RECORD_SIZE

\* merge_with(right_sibling) when the copy stays inside the array or the
\* bytes written past it do no visible harm
merge_with(left, right_sibling) ==
  [ left  |-> merge_left(solidify(left).page, solidify(right_sibling).page,
                         solidify(left).dest_index),
    right |-> merge_right(solidify(right_sibling).page) ]

\* The statements of borrow_from after both solidify() calls: to_move records
\* from the start of the right page go to the left page's empty space
borrow_left(lsol, rsol, left_empty_start, to_move) ==
  [lsol EXCEPT
     !.record_data_ = [i \in Slots |->
                         IF i >= left_empty_start /\ i < left_empty_start + to_move
                         THEN rsol.record_data_[i - left_empty_start]
                         ELSE lsol.record_data_[i]],
     !.bitmap_ = [i \in Slots |->
                    lsol.bitmap_[i]
                      \/ (i >= left_empty_start /\ i < left_empty_start + to_move)]]

borrow_right(rsol, to_move) ==
  [rsol EXCEPT !.bitmap_ = [i \in Slots |-> rsol.bitmap_[i] /\ i >= to_move]]

\* A count that rounds the half up
to_move_ceil(left, right_sibling) ==
  (size(left) + size(right_sibling) + 1) \div 2 - size(left)

\* to_move = target_left_size - left_size, target_left_size = total_size / 2
to_move(left, right_sibling) ==
  (size(left) + size(right_sibling)) \div 2 - size(left)

\* borrow_from(right_sibling); mid_val is *(right_sibling->min()) afterwards
borrow_from(left, right_sibling) ==
  SplitOut(borrow_left(solidify(left).page, solidify(right_sibling).page,
                       solidify(left).dest_index, to_move(left, right_sibling)),
           borrow_right(solidify(right_sibling).page, to_move(left, right_sibling)))

\* The next offsets the two pages are constructed with: the left page is
\* followed by a third page and the right page is new (as before a split), or
\* the left page is followed by the right one and that by the third page
SiblingNexts == { <<3 * PAGE_SIZE, U64MAX>>, <<2 * PAGE_SIZE, 3 * PAGE_SIZE>> }

\* The page was filled by inserts of ascending records and nothing else: the
\* occupied slots are the first ones and the others hold zeros
Filled(pg) ==
  /\ \A i \in Slots : pg.bitmap_[i] = (i < size(pg))
  /\ \A i \in Slots : ~pg.bitmap_[i] => pg.record_data_[i] = ZeroRecord

StructuralOps == {"split_with", "merge_with", "borrow_from"}

\* page1(path, PAGE_SIZE, next) and page2(path, 2 * PAGE_SIZE, next)
SiblingInit ==
  /\ \E next \in SiblingNexts : /\ page = NewPage(PAGE_SIZE, next[1])
                                 /\ page2 = NewPage(2 * PAGE_SIZE, next[2])
  /\ op = "new"
  /\ arg = ZeroRecord
  /\ ret = 0
  /\ ok = FALSE
  /\ hung = FALSE
  /\ NoEngine
  /\ NoCaller

\* Every record of the left page is <= every record of the right page
SiblingOrder(left, right) ==
  \A i, j \in Slots :
    (left.bitmap_[i] /\ right.bitmap_[j])
      => memcmp(left.record_data_[i], right.record_data_[j], RECORD_SIZE) <= 0

SiblingFrame == UNCHANGED <<enginevars, callervars>>

\* page1.insert(record) in the tests' filling loops, which insert ascending
\* records into a page that nothing was erased from and drop what insert
\* returns: a record that is >= the records of the left page and <= the
\* records of the right page
LeftInsert(record) ==
  /\ ~hung /\ op \notin StructuralOps
  /\ Filled(page)
  /\ \A i \in Slots : page.bitmap_[i]
        => memcmp(page.record_data_[i], record, RECORD_SIZE) <= 0
  /\ \A j \in Slots : page2.bitmap_[j]
        => memcmp(record, page2.record_data_[j], RECORD_SIZE) <= 0
  /\ page' = insert(page, record, TRUE).page
  /\ op' = "fill"
  /\ hung' = ~insert(page, record, TRUE).returns
  /\ UNCHANGED <<page2, arg, ret, ok>>
  /\ SiblingFrame

\* page2.insert(record): a record that is > the records of the right page
\* and >= the records of the left page
RightInsert(record) ==
  /\ ~hung /\ op \notin StructuralOps
  /\ Filled(page2)
  /\ \A j \in Slots : page2.bitmap_[j]
        => memcmp(page2.record_data_[j], record, RECORD_SIZE) < 0
  /\ \A i \in Slots : page.bitmap_[i]
        => memcmp(page.record_data_[i], record, RECORD_SIZE) <= 0
  /\ page2' = insert(page2, record, TRUE).page
  /\ op' = "fill"
  /\ hung' = ~insert(page2, record, TRUE).returns
  /\ UNCHANGED <<page, arg, ret, ok>>
  /\ SiblingFrame

\* page1.erase(iterator at an occupied slot)
LeftErase(index) ==
  /\ ~hung /\ op \notin StructuralOps
  /\ page.bitmap_[index]
  /\ page' = erase_index(page, index).page
  /\ op' = "fill"
  /\ UNCHANGED <<page2, arg, ret, ok, hung>>
  /\ SiblingFrame

\* page2.erase(iterator at an occupied slot)
RightErase(index) ==
  /\ ~hung /\ op \notin StructuralOps
  /\ page2.bitmap_[index]
  /\ page2' = erase_index(page2, index).page
  /\ op' = "fill"
  /\ UNCHANGED <<page, arg, ret, ok, hung>>
  /\ SiblingFrame

\* page1.split_with(&page2), its asserted precondition given: the left page
\* is full and the right page holds no record
SplitWith ==
  /\ ~hung /\ op \notin StructuralOps
  /\ is_full(page) /\ size(page2) = 0
  /\ page' = split_with(page, page2).left
  /\ page2' = split_with(page, page2).right
  /\ op' = "split_with"
  /\ arg' = split_with(page, page2).mid_val
  /\ ok' = TRUE
  /\ UNCHANGED <<ret, hung>>
  /\ SiblingFrame

\* page1.merge_with(&page2), its asserted precondition given: the records of
\* both pages fit into one. When std::copy writes past the end of the left
\* page's array the behaviour is undefined: the call completes as written
\* (done = TRUE) or the process dies of the damaged heap (done = FALSE).
MergeWith(done) ==
  /\ ~hung /\ op \notin StructuralOps
  /\ size(page) + size(page2) <= RECORD_COUNT
  /\ ~done => merge_overflow(page) > 0
  /\ page' = IF done THEN merge_with(page, page2).left ELSE page
  /\ page2' = IF done THEN merge_with(page, page2).right ELSE page2
  /\ op' = "merge_with"
  /\ ok' = done
  /\ UNCHANGED <<arg, ret, hung>>
  /\ SiblingFrame

\* page1.borrow_from(&page2), its asserted precondition given: the left page
\* holds fewer records than half of both pages' records
BorrowFrom ==
  /\ ~hung /\ op \notin StructuralOps
  /\ size(page) < (size(page) + size(page2)) \div 2
  /\ page' = borrow_from(page, page2).left
  /\ page2' = borrow_from(page, page2).right
  /\ op' = "borrow_from"
  /\ arg' = borrow_from(page, page2).mid_val
  /\ ok' = TRUE
  /\ UNCHANGED <<ret, hung>>
  /\ SiblingFrame

SiblingNext ==
  \/ \E record \in Record : LeftInsert(record)
  \/ \E record \in Record : RightInsert(record)
  \/ \E index \in Slots : LeftErase(index)
  \/ \E index \in Slots : RightErase(index)
  \/ SplitWith
  \/ \E done \in BOOLEAN : MergeWith(done)
  \/ BorrowFrom

SiblingSpec == SiblingInit /\ [][SiblingNext]_vars

(***************************************************************************)
(* DBBTree::erase(record) and inspect_after_erase.                          *)
(***************************************************************************)

\* erase_page(key, page_index) of the index tree: the separator key whose
\* leaf is page_index leaves the tree with its descriptor; a tree without
\* such a separator is left as it is
erase_page(bt, key, page_index) ==
  IF \E i \in 1..Len(bt.keys_) : bt.keys_[i] = key /\ bt.children_[i + 1] = page_index
  THEN [ keys_ |-> RemoveAt(bt.keys_,
                            CHOOSE i \in 1..Len(bt.keys_) :
                              bt.keys_[i] = key /\ bt.children_[i + 1] = page_index),
         children_ |-> RemoveAt(bt.children_,
                                1 + CHOOSE i \in 1..Len(bt.keys_) :
                                      bt.keys_[i] = key /\ bt.children_[i + 1] = page_index) ]
  ELSE bt

\* copy_min_key() is copy_key(0): the key bytes of slot 0, occupied or not
copy_min_key(pg) == [i \in 1..KEY_SIZE |-> pg.record_data_[0][i]]

\* The result of an erase: the engine, how the call ended, the returned cursor
\* and what inspect_after_erase did ("none", "merge" or "borrow")
EraseOut(st, status, cursor, did) ==
  [ st |-> st, status |-> status, cursor |-> cursor, did |-> did ]

\* inspect_after_erase, the merge branch: m is merge_with's result, sibling
\* the right page as it was before
inspect_merged(w, m, sibling, offset) ==
  discard_page([UpdatePage(UpdatePage(w, m.left), m.right) EXCEPT
                  !.btree_ = erase_page(w.btree_, copy_min_key(m.right),
                                        translated_index(sibling.page_offset_))],
               m.right.next_page_offset_, {offset, sibling.page_offset_})

\* inspect_after_erase, the borrow branch: b is borrow_from's result
inspect_borrowed(w, b, sibling, allow_dup) ==
  [UpdatePage(UpdatePage(w, b.left), b.right) EXCEPT
     !.btree_ = insert_page(erase_page(w.btree_, copy_min_key(sibling),
                                       translated_index(sibling.page_offset_)),
                            extract_key(b.mid_val),
                            translated_index(sibling.page_offset_), allow_dup)]

\* inspect_after_erase once get_page(sibling_offset) returned r. A sibling
\* that is the page itself makes merge_with and borrow_from copy a range onto
\* itself (undefined); done = FALSE is the merge whose std::copy past the
\* end of the array ends the process.
inspect_sibling(r, pg, sibling_offset, allow_dup, done) ==
  IF r.status # "ok" THEN EraseOut(r.w, r.status, NoCursor, "none")
  ELSE IF sibling_offset = pg.page_offset_ THEN EraseOut(r.w, "wild", NoCursor, "none")
  ELSE IF size(PageAt(r.w, sibling_offset)) + size(pg) <= RECORD_COUNT
  THEN IF ~done /\ merge_overflow(pg) > 0 THEN EraseOut(r.w, "crash", NoCursor, "merge")
       ELSE EraseOut(inspect_merged(r.w, merge_with(pg, PageAt(r.w, sibling_offset)),
                                    PageAt(r.w, sibling_offset), pg.page_offset_),
                     "ok", NoCursor, "merge")
  ELSE EraseOut(inspect_borrowed(r.w, borrow_from(pg, PageAt(r.w, sibling_offset)),
                                 PageAt(r.w, sibling_offset), allow_dup),
                "ok", NoCursor, "borrow")

\* inspect_after_erase(it) for the page at offset, which the caller holds
inspect_after_erase(st, offset, allow_dup, done) ==
  IF size(PageAt(st, offset)) >= RECORD_COUNT \div 2 THEN EraseOut(st, "ok", NoCursor, "none")
  ELSE inspect_sibling(get_page(st, PageAt(st, offset).next_page_offset_, {}, {offset}),
                       PageAt(st, offset), PageAt(st, offset).next_page_offset_,
                       allow_dup, done)

\* The cursor erase returns: end() when the page's erase returned end(), else
\* the page iterator as it is
erase_returns(i, offset, index) ==
  IF i.status # "ok" THEN i
  ELSE IF index = RECORD_COUNT
  THEN EraseOut(end(i.st, {offset}).st, end(i.st, {offset}).status,
                end(i.st, {offset}).cursor, i.did)
  ELSE EraseOut(i.st, "ok", Cursor(offset, index), i.did)

\* target_page->erase(record) and what follows it
erase_on(r, offset, record, allow_dup, done) ==
  IF r.status # "ok" THEN EraseOut(r.w, r.status, NoCursor, "none")
  ELSE IF ~erase_record(PageAt(r.w, offset), record).returns
  THEN EraseOut(r.w, "hang", NoCursor, "none")
  ELSE erase_returns(inspect_after_erase(UpdatePage(r.w, erase_record(PageAt(r.w, offset), record).page),
                                         offset, allow_dup, done),
                     offset, erase_record(PageAt(r.w, offset), record).index)

erase_at(st, pos, record, allow_dup, done) ==
  IF pos = 0 THEN EraseOut(st, "crash", NoCursor, "none")
  ELSE IF st.btree_.children_[pos] < 0 THEN EraseOut(st, "throw", NoCursor, "none")
  ELSE erase_on(get_page(st, translated_offset(st.btree_.children_[pos]), {}, {}),
                translated_offset(st.btree_.children_[pos]), record, allow_dup, done)

\* DBBTree::erase(record): target_node->page_index_ is read whether or not
\* find_page found a node
engine_erase(st, record, allow_dup, done) ==
  erase_at(st, find_page(st.btree_, extract_key(record)), record, allow_dup, done)

\* The name of an erase by what inspect_after_erase did
EraseName(did) ==
  IF did = "merge" THEN "engine_erase_merge"
  ELSE IF did = "borrow" THEN "engine_erase_borrow"
  ELSE "engine_erase"

EngineEraseOps == {"engine_erase", "engine_erase_merge", "engine_erase_borrow"}

\* The state after erase returned r
EraseDone(record, r) ==
  IF EndsRun(r.status) THEN Stuck(EraseName(r.did), record, r.status)
  ELSE /\ SetEngineState(r.st)
       /\ op' = EraseName(r.did)
       /\ arg' = record
       /\ out' = [NoOut EXCEPT !.status = r.status, !.cursor = r.cursor]
       /\ UNCHANGED <<AllowDup, btree_file, phase, stored, pagevars, callervars>>

\* erase(record). smashed: the bytes extract_key writes past the key's end
\* hit something the call needs, and the process ends.
EngineErase(record, smashed, done) ==
  /\ phase = "open"
  /\ IF smashed /\ ExtractKeyOverflows THEN Stuck("engine_erase", record, "crash")
     ELSE EraseDone(record, engine_erase(EngineState, record, AllowDup, done))

\* insert(record) in the filling loop of test_DBBTree_erase, before any erase
FillInsert(record, smashed) ==
  /\ op \notin EngineEraseOps
  /\ EngineInsert(record, smashed)

\* test_DBBTree_erase: inserts, then erases
EraseNext ==
  \/ \E record \in Record, smashed \in BOOLEAN : FillInsert(record, smashed)
  \/ \E record \in Record, smashed, done \in BOOLEAN : EngineErase(record, smashed, done)

EraseSpec == EngineInit /\ [][EraseNext]_vars

(***************************************************************************)
(* The engine filled as the tests fill it: create_sample_record(i) for     *)
(* i = 1, 2, ... in this order, records that grow strictly, and then       *)
(* erased record by record.                                                *)
(***************************************************************************)
\* Largest key byte of the sample records
MaxSampleKey == 3
\* The number of sample records one run inserts at most
MaxSampleInserts == 8

\* The number of records one run erases at most
MaxSampleErases == 2

\* The values of create_sample_record: several keys, and several records of
\* one key
SampleRecord == {MakeRecord(k, p) : k \in 0..MaxSampleKey, p \in Byte}

SampleInit ==
  /\ page = NewPage(PAGE_SIZE, U64MAX)
  /\ op = "open"
  /\ arg = ZeroRecord
  /\ ret = 0
  /\ ok = FALSE
  /\ hung = FALSE
  /\ AllowDup \in BOOLEAN
  /\ pages_ = BufferPoolCreate.pages_
  /\ empty_pages_start = BufferPoolCreate.empty_pages_start
  /\ discarded_page_offsets = BufferPoolCreate.discarded_page_offsets
  /\ file = BufferPoolCreate.file
  /\ btree_ = EmptyTree
  /\ btree_file = EmptyTree
  /\ phase = "open"
  /\ out = NoOut
  /\ stored = [r \in SampleRecord |-> 0]
  /\ NoCaller
  /\ NoSibling

\* btree.insert(create_sample_record(i)) in the loop over growing i
SampleInsert(record, smashed) ==
  /\ phase = "open"
  /\ op \notin EngineEraseOps
  /\ BagCount(stored, SampleRecord) < MaxSampleInserts
  /\ \A r \in SampleRecord : stored[r] > 0 => memcmp(r, record, RECORD_SIZE) < 0
  /\ EngineInsert(record, smashed)

\* The number of occupied slots of the pages ps
RECURSIVE Occupancy(_)
Occupancy(ps) == IF ps = <<>> THEN 0 ELSE size(Head(ps)) + Occupancy(Tail(ps))

\* btree.erase of a record the loop inserted
SampleErase(record, smashed, done) ==
  /\ phase = "open"
  /\ stored[record] > 0
  /\ BagCount(stored, SampleRecord) - Occupancy(pages_) < MaxSampleErases
  /\ EngineErase(record, smashed, done)

SampleNext ==
  \/ \E record \in SampleRecord, smashed \in BOOLEAN : SampleInsert(record, smashed)
  \/ \E record \in SampleRecord, smashed, done \in BOOLEAN : SampleErase(record, smashed, done)

SampleSpec == SampleInit /\ [][SampleNext]_vars

(***************************************************************************)
(* One page driven by insert, erase and solidify().                        *)
(***************************************************************************)
\* page.solidify(): ret is the returned start of the empty space, ok tells
\* whether the copy branch (dest_index != src_index) ran for some record
Solidify ==
  /\ ~hung
  /\ page' = solidify(page).page
  /\ op' = "solidify"
  /\ ret' = solidify(page).dest_index
  /\ ok' = \E i \in Slots : page.bitmap_[i] /\ \E j \in Slots : j < i /\ ~page.bitmap_[j]
  /\ UNCHANGED <<arg, hung, page2>>
  /\ UNCHANGED enginevars
  /\ UNCHANGED callervars

SolidifyNext ==
  \/ \E record \in Record, allow_dup \in BOOLEAN : Insert(record, allow_dup)
  \/ \E index \in Slots : EraseIter(index)
  \/ Solidify

SolidifySpec == Init /\ [][SolidifyNext]_vars
\* The occupied records of a page as a bag: record -> number of occupied slots holding it
Occupied(pg) ==
  [r \in Record |-> Cardinality({i \in Slots : pg.bitmap_[i] /\ pg.record_data_[i] = r})]

\* C1: after any sequence of insert (either allow_dup) and erase calls from an
\* empty page, the occupied records in slot order are in non-decreasing
\* byte-lexicographic order (verify_order() is true).
C1_Ordered == verify_order(page)

InsertOps == {"insert_dup", "insert_nodup"}
EraseOps == {"erase_iter", "erase_record"}

\* C2: an insert that returns inserted = true adds exactly the given record to
\* the bag of occupied records (every record occupied before is still
\* occupied), and the returned iterator is an occupied slot holding the record.
C2_InsertAddsExactlyRecord ==
  [][ (op' \in InsertOps /\ ok')
        => /\ Occupied(page') = [Occupied(page) EXCEPT ![arg'] = @ + 1]
           /\ ret' \in Slots
           /\ page'.bitmap_[ret']
           /\ page'.record_data_[ret'] = arg' ]_vars

\* The pages that inserts with allow_dup = true alone make of an empty page:
\* the occupied slots are the first ones, in order, and the others hold zeros.
InsertedOnly(pg) ==
  /\ \A i \in Slots : pg.bitmap_[i] = (i < size(pg))
  /\ \A i \in Slots : ~pg.bitmap_[i] => pg.record_data_[i] = ZeroRecord
  /\ verify_order(pg)

\* C3: size() is the number of successful inserts minus the number of erases
\* that cleared a slot: a successful insert raises it by exactly 1, a clearing
\* erase lowers it by exactly 1, any other call leaves it, and on a page made
\* by inserts alone an insert with allow_dup = true succeeds until the page
\* is full.
C3_SizeCountsInsertsMinusErases ==
  [][ /\ (op' \in InsertOps /\ ok') => size(page') = size(page) + 1
      /\ (op' \in EraseOps /\ ok') => size(page') = size(page) - 1
      /\ ~ok' => size(page') = size(page)
      /\ (op' = "insert_dup" /\ InsertedOnly(page) /\ size(page) < RECORD_COUNT) => ok' ]_vars

\* The lowest occupied slot whose record compares >= a over a's width, else RECORD_COUNT
LowerBoundSlot(pg, a) ==
  LET S == {i \in Slots : pg.bitmap_[i] /\ memcmp(a, pg.record_data_[i], get_size(a)) <= 0}
  IN  IF S = {} THEN RECORD_COUNT ELSE CHOOSE i \in S : \A j \in S : i <= j

\* The lowest occupied slot whose record compares > a over a's width, else RECORD_COUNT
UpperBoundSlot(pg, a) ==
  LET S == {i \in Slots : pg.bitmap_[i] /\ memcmp(a, pg.record_data_[i], get_size(a)) < 0}
  IN  IF S = {} THEN RECORD_COUNT ELSE CHOOSE i \in S : \A j \in S : i <= j

\* C4: on every page reachable by insert and erase and for every key or record,
\* search_lb returns the lowest occupied slot whose record is >= the argument,
\* or end() when every occupied record is smaller.
C4_SearchLbIsLowerBound ==
  \A a \in KeyOrRecord : search_lb(page, a) = Returned(LowerBoundSlot(page, a))

\* C5: on every non-empty page reachable by insert and erase and for every key
\* or record, search_ub returns the lowest occupied slot whose record is > the
\* argument, and end() when no occupied record is greater.
C5_SearchUbIsUpperBound ==
  size(page) > 0
    => \A a \in KeyOrRecord : search_ub(page, a) = Returned(UpperBoundSlot(page, a))

\* C6: search_lb and search_ub terminate for every argument on every page
\* reachable by insert and erase, so no page call fails to return.
C6_SearchTerminates ==
  /\ \A a \in KeyOrRecord : search_lb(page, a).returns /\ search_ub(page, a).returns
  /\ ~hung

\* C8: after erase(x) removed the only stored copy of x, search(x) on the page
\* returns end().
C8_EraseThenSearchIsEnd ==
  (op = "erase_record" /\ ok /\ Occupied(page)[arg] = 0)
    => search(page, arg) = Returned(RECORD_COUNT)


\* A search result r is a cursor, different from end(), at a record equal to record
Found(r, record) ==
  /\ r.status = "ok"
  /\ r.cursor.index < RECORD_COUNT
  /\ PageAt(r.st, r.cursor.offset).record_data_[r.cursor.index] = record

\* C7: in the engine (set or multiset mode), once insert(x) has returned
\* inserted = true, search(x) returns a cursor different from end() whose
\* record equals x byte for byte, whatever was inserted before.
C7_InsertThenSearchFinds ==
  (op = "engine_insert" /\ phase = "open" /\ out.status = "ok" /\ out.inserted)
    => Found(engine_search(EngineState, arg), arg)

\* The records of a visited list as a bag
VisitedBag(visited) ==
  [r \in Record |-> Cardinality({i \in 1..Len(visited) : visited[i].record = r})]

\* The visited records are in non-decreasing order, strictly increasing for a set
InOrder(visited, allow_dup) ==
  \A i, j \in 1..Len(visited) :
    i < j => IF allow_dup
             THEN memcmp(visited[i].record, visited[j].record, RECORD_SIZE) <= 0
             ELSE memcmp(visited[i].record, visited[j].record, RECORD_SIZE) < 0

\* C9: an iteration from begin() until the cursor equals end() ends after
\* finitely many increments and visits exactly the stored records - each
\* occupied slot once, no unoccupied slot - in non-decreasing order (strictly
\* increasing in set mode).
C9_IterationVisitsStored ==
  op = "scan"
    => /\ phase = "open"
       /\ out.status = "ok"
       /\ \A i \in 1..Len(out.visited) : out.visited[i].occupied
       /\ VisitedBag(out.visited) = stored
       /\ InOrder(out.visited, AllowDup)

\* The records an iteration read from occupied slots, in the order visited
OccupiedVisited(r) == SelectSeq(r.visited, LAMBDA v : v.occupied)

\* The leaves the index names
Leaves(bt) == {i \in 1..Len(bt.children_) : bt.children_[i] >= 0}

\* Iteration b ends and yields the records of iteration a in the same order
SameIteration(a, b) ==
  /\ b.status = "ok"
  /\ OccupiedVisited(b) = OccupiedVisited(a)

\* C10: when an engine whose records lie in leaves on several pages, and whose
\* iteration ends, is destroyed and a new engine is constructed on the same
\* page file and index file, the new engine's iteration yields the same
\* records in the same order.
C10_ReopenPreservesIteration ==
  [][ (op' = "reopen" /\ Cardinality(Leaves(btree_)) >= 2 /\ scan(EngineState).status = "ok")
        => /\ phase' = "open"
           /\ SameIteration(scan(EngineState), scan(EngineState')) ]_vars



(***************************************************************************)
(* Claims about the page's round trip through the file.                    *)
(***************************************************************************)
\* C11: a page that is destroyed, which writes it to the file, and then
\* constructed again from the same path and offset without a hint has the
\* same next_page_offset_, the same bitmap and the same record bytes in every
\* slot as before
C11_PageRoundTrip ==
  [][op' = "reload" =>
       /\ ok'
       /\ page'.page_offset_ = page.page_offset_
       /\ page'.next_page_offset_ = page.next_page_offset_
       /\ page'.bitmap_ = page.bitmap_
       /\ \A i \in Slots : page'.record_data_[i] = page.record_data_[i]]_vars

\* A page with records and with bytes left in a free slot was read back
C11_Reloaded ==
  /\ op = "reload"
  /\ ok
  /\ size(page) > 1
  /\ \E i \in Slots : ~page.bitmap_[i] /\ page.record_data_[i] # ZeroRecord

(***************************************************************************)
(* Claims about the BufferPool.                                            *)
(***************************************************************************)
\* C12: the pool's header round-trips: a pool constructed on the file of a
\* destroyed pool has the empty_pages_start and the discarded_page_offsets
\* (same length, same offsets) the destroyed pool had; a pool constructed on a
\* path with no file starts with empty_pages_start equal to the page size and
\* an empty list
C12_HeaderRoundTrip ==
  [][/\ op = "pool_new" =>
          empty_pages_start = PAGE_SIZE /\ discarded_page_offsets = <<>>
     /\ op' = "pool_reopen" =>
          /\ phase' = "reopened"
          /\ empty_pages_start' = empty_pages_start
          /\ discarded_page_offsets' = discarded_page_offsets]_vars

\* The offsets of the resident pages
ResidentOffsets(ps) == {ps[i].page_offset_ : i \in 1..Len(ps)}

\* C13: after any sequence of get_page, get_new_page and discard_page calls the
\* number of resident pages never exceeds max_pages
C13_AtMostMaxPages == Len(pages_) <= MAX_PAGES

\* The pool is full after a get_new_page that had to evict a page
C13_FullAfterEviction ==
  /\ op = "get_new_page"
  /\ call.status = "ok"
  /\ Len(pages_) = MAX_PAGES
  /\ Cardinality(live) > MAX_PAGES

\* C14: get_page and get_new_page never remove from the cache a page a caller
\* holds a handle to: every such page is resident after the call, as the same
\* page object, so the victim of an eviction is a page only the pool refers to
C14_PinnedStayResident ==
  [][op' \in {"get_page", "get_new_page"} =>
       \A o \in handles \cap ResidentOffsets(pages_) :
          /\ o \in ResidentOffsets(pages_')
          /\ PageAt(EngineState', o) = PageAt(EngineState, o)]_vars

\* The pool's (MAX_PAGES + 1)-th page was handed out while the least recently
\* used page was held by the caller: the eviction passed over that page
C14_EvictedPastPinned ==
  /\ op = "get_new_page"
  /\ call.status = "ok"
  /\ call.n = MAX_PAGES + 1
  /\ Cardinality(live) = MAX_PAGES + 1
  /\ Len(pages_) = MAX_PAGES
  /\ pages_[MAX_PAGES].page_offset_ \in handles

\* The offset of the least recently fetched page of ps that no handle in hs holds
LeastRecentUnheld(ps, hs) ==
  ps[CHOOSE i \in 1..Len(ps) :
       /\ ps[i].page_offset_ \notin hs
       /\ \A j \in (i + 1)..Len(ps) : ps[j].page_offset_ \in hs].page_offset_

\* The last n elements of the sequence s
LastOf(s, n) == {s[i] : i \in (Len(s) - n + 1)..Len(s)}

\* C15: on a miss with max_pages pages resident exactly one page is evicted,
\* the least recently fetched of the pages no caller holds; so after
\* N > max_pages successive get_new_page calls whose handles are dropped at
\* once, exactly the last max_pages offsets handed out are resident and every
\* earlier one is not
C15_EvictsLeastRecent ==
  [][/\ ( /\ op' \in {"get_page", "get_new_page"}
          /\ Len(pages_) = MAX_PAGES
          /\ call'.offset \notin ResidentOffsets(pages_)
          /\ ResidentOffsets(pages_) \ handles # {} )
        => ResidentOffsets(pages_') \ {call'.offset}
             = ResidentOffsets(pages_) \ {LeastRecentUnheld(pages_, handles)}
     /\ (plain' /\ Len(allocs') > MAX_PAGES)
        => /\ ResidentOffsets(pages_') = LastOf(allocs', MAX_PAGES)
           /\ \A i \in 1..(Len(allocs') - MAX_PAGES) :
                 allocs'[i] \notin ResidentOffsets(pages_')]_vars

\* C16: when max_pages pages are resident and a caller holds every one of
\* them, get_page for an offset that is not resident (also the get_page that
\* get_new_page makes) fails with an error and leaves the resident pages and
\* their recency order as they were
C16_AllPinnedFails ==
  [][( /\ op' \in {"get_page", "get_new_page"}
       /\ Len(pages_) = MAX_PAGES
       /\ ResidentOffsets(pages_) \subseteq handles
       /\ call'.offset \notin ResidentOffsets(pages_) )
     => /\ call'.status = "throw"
        /\ pages_' = pages_]_vars

\* get_page threw in a full pool whose pages are all held
C16_Exhausted ==
  /\ op = "get_page"
  /\ call.status = "throw"
  /\ Len(pages_) = MAX_PAGES
  /\ ResidentOffsets(pages_) \subseteq handles
  /\ call.offset \notin ResidentOffsets(pages_)

\* C17: across get_new_page and discard_page calls, with evictions and
\* write-backs in between, get_new_page never returns an offset it returned
\* before that was not discarded since, and every offset it returns is a
\* non-zero multiple of the page size
C17_FreshOffsets ==
  [][(op' = "get_new_page" /\ call'.status = "ok")
     => /\ call'.offset \notin live
        /\ call'.offset # 0
        /\ call'.offset % PAGE_SIZE = 0]_vars

\* C18: get_new_page returns a handle to an empty page whose
\* next_page_offset_ is the hint and whose page_offset_ is the returned
\* offset; it never hands back a page that already holds records
C18_NewPageIsEmpty ==
  [][(op' = "get_new_page" /\ call'.status = "ok")
     => /\ call'.offset \in ResidentOffsets(pages_')
        /\ PageAt(EngineState', call'.offset).page_offset_ = call'.offset
        /\ PageAt(EngineState', call'.offset).next_page_offset_ = call'.hint
        /\ size(PageAt(EngineState', call'.offset)) = 0]_vars

\* The last element of a non-empty sequence, and the sequence without it
Back(s) == s[Len(s)]
PopBack(s) == SubSeq(s, 1, Len(s) - 1)

\* C19: get_new_page takes empty_pages_start while a whole page fits between
\* it and the end of the file; otherwise it pops the last discarded offset;
\* it extends the file by one page only when the frontier is at the end of
\* the file and no offset is discarded
C19_PreferenceOrder ==
  [][op' = "get_new_page" =>
       IF empty_pages_start + PAGE_SIZE <= file.size
       THEN /\ call'.offset = empty_pages_start
            /\ empty_pages_start' = empty_pages_start + PAGE_SIZE
            /\ discarded_page_offsets' = discarded_page_offsets
       ELSE IF discarded_page_offsets # <<>>
       THEN /\ call'.offset = Back(discarded_page_offsets)
            /\ discarded_page_offsets' = PopBack(discarded_page_offsets)
            /\ empty_pages_start' = empty_pages_start
       ELSE /\ empty_pages_start = file.size
            /\ call'.offset = file.size
            /\ empty_pages_start' = file.size + PAGE_SIZE
            /\ discarded_page_offsets' = discarded_page_offsets]_vars

\* The pages of ps other than the one at offset, in their order
Without(ps, offset) == SelectSeq(ps, LAMBDA pg : pg.page_offset_ # offset)

\* C20: after discard_page(offset) the offset is not resident and it is
\* recorded as free once: empty_pages_start becomes offset when
\* offset + PAGE_SIZE was empty_pages_start, otherwise offset is appended to
\* discarded_page_offsets; no other resident page is removed
C20_DiscardFreesOnce ==
  [][op' = "discard_page" =>
       /\ call'.offset \notin ResidentOffsets(pages_')
       /\ pages_' = Without(pages_, call'.offset)
       /\ IF call'.offset + PAGE_SIZE = empty_pages_start
          THEN /\ empty_pages_start' = call'.offset
               /\ discarded_page_offsets' = discarded_page_offsets
          ELSE /\ empty_pages_start' = empty_pages_start
               /\ discarded_page_offsets' = Append(discarded_page_offsets, call'.offset)]_vars

\* A resident page at the frontier was discarded after another offset had
\* gone to the list, and a page is still resident
C20_DiscardedBothWays ==
  /\ op = "discard_page"
  /\ empty_pages_start = call.offset
  /\ discarded_page_offsets # <<>>
  /\ call.offset \notin ResidentOffsets(pages_)
  /\ pages_ # <<>>

(***************************************************************************)
(* Claims about what insert and erase return.                              *)
(***************************************************************************)
\* C21: insert with allow_dup = false of a record that is byte-identical to a
\* stored record (on a page that is not full) returns the iterator of an
\* occupied slot holding that record and false, and leaves the bitmap, size()
\* and every slot as they were
C21_IdenticalRejected ==
  [][(op' = "insert_nodup" /\ Occupied(page)[arg'] > 0 /\ size(page) < RECORD_COUNT)
     => /\ ~hung'
        /\ ~ok'
        /\ ret' \in Slots
        /\ page.bitmap_[ret']
        /\ page.record_data_[ret'] = arg'
        /\ page' = page]_vars

\* The occupied slots of pg whose record has the key of record
SameKeySlots(pg, record) ==
  {i \in Slots : pg.bitmap_[i] /\ memcmp(record, pg.record_data_[i], KEY_SIZE) = 0}

\* C22: insert with allow_dup = false rejects by key: when a stored record has
\* the first KEY_SIZE bytes of the new record (whatever the other bytes are),
\* insert returns the iterator of that record and false, and the page is
\* unchanged
C22_RejectsByKey ==
  [][(op' = "insert_nodup" /\ SameKeySlots(page, arg') # {} /\ size(page) < RECORD_COUNT)
     => /\ ~ok'
        /\ ret' \in SameKeySlots(page, arg')
        /\ page' = page]_vars

\* C23: insert on a full page returns (end(), false) and leaves the page
\* unchanged; with allow_dup = true insert returns true on every page that is
\* not full
C23_FullRejectsElseAccepts ==
  [][/\ (op' \in InsertOps /\ size(page) = RECORD_COUNT)
          => (~hung' /\ ~ok' /\ ret' = RECORD_COUNT /\ page' = page)
     /\ (op' = "insert_dup" /\ size(page) < RECORD_COUNT)
          => (~hung' /\ ok')]_vars

\* The first occupied slot after slot i, or RECORD_COUNT (end()) when none follows
NextOccupied(pg, i) ==
  IF \E j \in Slots : j > i /\ pg.bitmap_[j]
    THEN CHOOSE j \in Slots : /\ j > i /\ pg.bitmap_[j]
                              /\ \A k \in Slots : (k > i /\ pg.bitmap_[k]) => j <= k
    ELSE RECORD_COUNT

\* C24: erase(iter) on an occupied slot clears that slot's bit and returns the
\* iterator of the next occupied slot after it, or end() when none follows
C24_EraseReturnsNext ==
  [][(op' = "erase_iter" /\ ok')
       => \E i \in Slots : /\ page.bitmap_[i]
                           /\ page' = [page EXCEPT !.bitmap_[i] = FALSE]
                           /\ ret' = NextOccupied(page, i)]_vars

\* The index that erase(const Record&) hands to erase(size_t), where it is the
\* operand of (*bitmap_)[index]: the index of the iterator search returns
erase_tests(pg, record) == search(pg, record).index

\* C25: erase(record) of a record that is not stored returns end(), leaves the
\* bitmap and every slot unchanged, and tests or clears no bitmap index
\* >= RECORD_COUNT
C25_EraseAbsent ==
  [][(op' = "erase_record" /\ Occupied(page)[arg'] = 0)
       => /\ ~hung'
          /\ ret' = RECORD_COUNT
          /\ page' = page
          /\ erase_tests(page, arg') < RECORD_COUNT]_vars

(* Claims about split_with, merge_with and borrow_from on two sibling pages. *)

\* The records of two pages together, as a bag
OccupiedBoth(left, right) == [r \in Record |-> Occupied(left)[r] + Occupied(right)[r]]

\* record is an occupied record of pg and no occupied record of pg is below it
IsMinimumOf(record, pg) ==
  /\ Occupied(pg)[record] > 0
  /\ \A i \in Slots : pg.bitmap_[i] => memcmp(record, pg.record_data_[i], RECORD_SIZE) <= 0

OccupiedSeq(pg) ==
  [k \in 1..size(pg) |->
     pg.record_data_[CHOOSE i \in Slots :
                       /\ pg.bitmap_[i]
                       /\ Cardinality({j \in Slots : j < i /\ pg.bitmap_[j]}) = k - 1]]

\* C27: merge_with(right) with size() + right.size() <= RECORD_COUNT completes
\* and leaves the left page holding its old records followed by all of
\* right's old records in order, and the right page with size() = 0, also
\* when the pages had holes before the call
C27_MergeAppends ==
  [][op' = "merge_with"
       => /\ ok'
          /\ OccupiedSeq(page') = OccupiedSeq(page) \o OccupiedSeq(page2)
          /\ size(page2') = 0]_vars

\* C28: borrow_from(right) with size() < floor((size() + right.size()) / 2)
\* moves the smallest records of right to the end of the left page: left then
\* holds floor(sum / 2) records and right sum - floor(sum / 2), both at least
\* floor(sum / 2); the records of both pages in order are what they were; the
\* returned record is the minimum of the right page after the move
C28_BorrowBalances ==
  [][op' = "borrow_from"
       => /\ size(page') = (size(page) + size(page2)) \div 2
          /\ size(page2') = size(page) + size(page2) - (size(page) + size(page2)) \div 2
          /\ size(page2') >= (size(page) + size(page2)) \div 2
          /\ OccupiedSeq(page') \o OccupiedSeq(page2') = OccupiedSeq(page) \o OccupiedSeq(page2)
          /\ IsMinimumOf(arg', page2')]_vars

\* A borrow has moved one record: the left page held one record and holds two
\* now, the right page held three and holds two, from its slot 1 on
C28_Borrowed ==
  /\ op = "borrow_from"
  /\ size(page) = 2
  /\ size(page2) = 2
  /\ ~page2.bitmap_[0] /\ page2.bitmap_[1]
  /\ page.record_data_[1] = page2.record_data_[0]
  /\ arg = page2.record_data_[1]

\* C29: the structural operations maintain the leaf links: after
\* left.split_with(right) the right page's next offset is the left page's old
\* next offset and the left page's next offset is the right page's own
\* offset; after a left.merge_with(right) that completes the left page's next
\* offset is the right page's old next offset; borrow_from changes no next
\* offset
C29_LinksMaintained ==
  [][/\ op' = "split_with"
          => /\ page2'.next_page_offset_ = page.next_page_offset_
             /\ page'.next_page_offset_ = page2.page_offset_
     /\ (op' = "merge_with" /\ ok')
          => page'.next_page_offset_ = page2.next_page_offset_
     /\ op' = "borrow_from"
          => /\ page'.next_page_offset_ = page.next_page_offset_
             /\ page2'.next_page_offset_ = page2.next_page_offset_]_vars

\* A split has linked a new right page in between the left page and the page
\* at 3 * PAGE_SIZE that followed it
C29_SplitLinked ==
  /\ op = "split_with"
  /\ page.next_page_offset_ = 2 * PAGE_SIZE
  /\ page2.page_offset_ = 2 * PAGE_SIZE
  /\ page2.next_page_offset_ = 3 * PAGE_SIZE

(* The claim about erase in the engine. *)

\* The leaf an erase of record goes to, as an offset (0 when the index names none)
EraseTarget(record) ==
  IF find_page(btree_, extract_key(record)) = 0 THEN 0
  ELSE IF btree_.children_[find_page(btree_, extract_key(record))] < 0 THEN 0
  ELSE translated_offset(btree_.children_[find_page(btree_, extract_key(record))])

\* That leaf once the record's bit is cleared
LeafErased(record) == erase_index(PageAt(EngineState, EraseTarget(record)),
                                  erase_tests(PageAt(EngineState, EraseTarget(record)), record)).page

\* The erase of record finds its leaf in the pool, the page's erase returns,
\* and the leaf has a right sibling in the pool: the page its next offset
\* names, which is the leaf of the next separator of the index
HasRightSibling(record) ==
  /\ EraseTarget(record) # 0
  /\ Resident(EngineState, EraseTarget(record))
  /\ search(PageAt(EngineState, EraseTarget(record)), record).returns
  /\ LeafErased(record).next_page_offset_ # EraseTarget(record)
  /\ Resident(EngineState, LeafErased(record).next_page_offset_)
  /\ find_page(btree_, extract_key(record)) < Len(btree_.children_)
  /\ btree_.children_[find_page(btree_, extract_key(record)) + 1]
       = translated_index(LeafErased(record).next_page_offset_)

SiblingOf(record) == PageAt(EngineState, LeafErased(record).next_page_offset_)

\* The index as it is with the descriptor page_index and its separator taken out
SeparatorRemoved(bt, page_index, bt2) ==
  \E i \in 1..Len(bt.keys_) :
    /\ bt.children_[i + 1] = page_index
    /\ bt2.keys_ = RemoveAt(bt.keys_, i)
    /\ bt2.children_ = RemoveAt(bt.children_, i + 1)

\* The index as it is with the separator of page_index replaced by key
SeparatorReplaced(bt, page_index, key, bt2) ==
  \E i \in 1..Len(bt.keys_) :
    /\ bt.children_[i + 1] = page_index
    /\ bt2.keys_ = [bt.keys_ EXCEPT ![i] = key]
    /\ bt2.children_ = bt.children_

\* C30: when an engine erase (one that gets past extract_key) leaves the
\* target leaf with size() < RECORD_COUNT / 2 and the leaf has a right
\* sibling, the engine merges the sibling into the leaf if their combined
\* size is <= RECORD_COUNT and removes the sibling's separator from the
\* index, and otherwise borrows from the sibling and replaces the sibling's
\* separator by the sibling's new minimum key; a leaf with
\* size() >= RECORD_COUNT / 2 triggers neither
C30_EraseRebalances ==
  [][(op' \in EngineEraseOps /\ ~(op' = "engine_erase" /\ out'.status = "crash")
        /\ HasRightSibling(arg'))
       => IF size(LeafErased(arg')) >= RECORD_COUNT \div 2
          THEN /\ op' = "engine_erase"
               /\ btree_' = btree_
          ELSE IF size(LeafErased(arg')) + size(SiblingOf(arg')) <= RECORD_COUNT
          THEN /\ op' = "engine_erase_merge"
               /\ out'.status = "ok"
               /\ OccupiedSeq(PageAt(EngineState', EraseTarget(arg')))
                    = OccupiedSeq(LeafErased(arg')) \o OccupiedSeq(SiblingOf(arg'))
               /\ SeparatorRemoved(btree_, translated_index(SiblingOf(arg').page_offset_), btree_')
          ELSE /\ op' = "engine_erase_borrow"
               /\ out'.status = "ok"
               /\ SeparatorReplaced(btree_, translated_index(SiblingOf(arg').page_offset_),
                                    extract_key(min_record(PageAt(EngineState',
                                                                  SiblingOf(arg').page_offset_))),
                                    btree_')]_vars

(* Claims about erase at the end of the leaf chain and about the index. *)

\* The offsets inspect_after_erase passes to buffer_pool_->get_page for the
\* page pg: the next offset of a page below half of max_size(), none else
sibling_asked(pg) ==
  IF size(pg) < RECORD_COUNT \div 2 THEN {pg.next_page_offset_} ELSE {}

\* C31: an engine erase (one that gets past extract_key) on a leaf that has
\* no right sibling (its next offset is u64 max) completes without error and
\* asks the pool for no page at offset u64 max, also when the leaf's size
\* drops below RECORD_COUNT / 2 or to 0
C31_LastLeafErase ==
  [][(/\ op' \in EngineEraseOps
      /\ ~(op' = "engine_erase" /\ out'.status = "crash")
      /\ EraseTarget(arg') # 0
      /\ Resident(EngineState, EraseTarget(arg'))
      /\ search(PageAt(EngineState, EraseTarget(arg')), arg').returns
      /\ PageAt(EngineState, EraseTarget(arg')).next_page_offset_ = U64MAX)
       => /\ out'.status = "ok"
          /\ U64MAX \notin sibling_asked(LeafErased(arg'))]_vars

\* The leaf at offset as the engine has it: the page in the pool, else the
\* image in the page file
LeafAt(offset) ==
  IF Resident(EngineState, offset) THEN PageAt(EngineState, offset)
  ELSE ReadPage(file, offset)

\* C32: after any sequence of engine inserts and erases, for every separator
\* (k, i) of the index whose descriptor is no placeholder, the leaf at offset
\* i * PAGE_SIZE is non-empty and the key of its minimum occupied record is k
C32_SeparatorIsMinimumKey ==
  \A i \in 1..Len(btree_.keys_) :
    btree_.children_[i + 1] >= 0
      => /\ size(LeafAt(translated_offset(btree_.children_[i + 1]))) > 0
         /\ extract_key(min_record(LeafAt(translated_offset(btree_.children_[i + 1]))))
              = btree_.keys_[i]

\* The offsets of the live leaves, in the order of the index: the descriptors
\* that are no placeholder
LiveLeaves ==
  [k \in 1..Cardinality({i \in 1..Len(btree_.children_) : btree_.children_[i] >= 0}) |->
     translated_offset(
       btree_.children_[CHOOSE i \in 1..Len(btree_.children_) :
         /\ btree_.children_[i] >= 0
         /\ Cardinality({j \in 1..(i - 1) : btree_.children_[j] >= 0}) = k - 1])]

\* A leaf the engine can get: in the pool or readable from the page file
LeafReadable(offset) == Resident(EngineState, offset) \/ CanRead(file, offset)

\* The offsets met by following next_page_offset_ from offset, the offset
\* the walk stops at included
RECURSIVE chain(_, _)
chain(offset, fuel) ==
  IF fuel = 0 \/ offset = U64MAX \/ ~LeafReadable(offset) THEN <<offset>>
  ELSE <<offset>> \o chain(LeafAt(offset).next_page_offset_, fuel - 1)

\* Every key of leaf pg is at most every key of the leaf after it
ChainOrdered(pg) ==
  \/ pg.next_page_offset_ = U64MAX
  \/ /\ LeafReadable(pg.next_page_offset_)
     /\ \A i, j \in Slots :
          (pg.bitmap_[i] /\ LeafAt(pg.next_page_offset_).bitmap_[j])
            => memcmp(extract_key(pg.record_data_[i]),
                      extract_key(LeafAt(pg.next_page_offset_).record_data_[j]), KEY_SIZE) <= 0

\* The chain that starts at the leftmost live leaf
LeafChain == chain(LiveLeaves[1], MaxFilePages + 1)

\* C33: the leaves form one chain: following next_page_offset_ from the
\* leftmost leaf visits every live leaf exactly once and ends at u64 max, and
\* the minimum key of the leaf a leaf's next offset names is at least that
\* leaf's maximum key
C33_OneChain ==
  (phase = "open" /\ Len(LiveLeaves) > 0)
    => /\ LeafChain[Len(LeafChain)] = U64MAX
       /\ \A k \in 1..Len(LiveLeaves) :
            Cardinality({n \in 1..Len(LeafChain) : LeafChain[n] = LiveLeaves[k]}) = 1
       /\ \A k \in 1..Len(LiveLeaves) :
            LeafReadable(LiveLeaves[k]) /\ ChainOrdered(LeafAt(LiveLeaves[k]))

\* The number of sample records the insert loop has stored
SampleCount == BagCount(stored, SampleRecord)

\* The live leaves are exactly the chain from the leftmost one to u64 max
SingleChain == LeafChain = LiveLeaves \o <<U64MAX>>

\* C34: strictly increasing inserts of N * RECORD_COUNT records yield exactly N
\* leaves in a single chain, and RECORD_COUNT + 1 increasing records yield
\* exactly two linked leaves and one promoted separator next to the first
\* leaf's own
C34_IncreasingFill ==
  (phase = "open" /\ op = "engine_insert" /\ out.status = "ok")
    => /\ \A N \in 1..(MaxSampleInserts \div RECORD_COUNT) :
            SampleCount = N * RECORD_COUNT => (Len(LiveLeaves) = N /\ SingleChain)
       /\ SampleCount = RECORD_COUNT + 1
            => /\ Len(LiveLeaves) = 2
               /\ SingleChain
               /\ Len(btree_.keys_) = 2

\* C35: a pool call that writes a page back (eviction by get_page or
\* get_new_page, discard_page) changes only the PAGE_SIZE bytes at that page's
\* own offset: the file is not shortened, and the header page and the image of
\* every page that did not leave the pool are as before, so that an evicted
\* page can be read again as it was
C35_WriteBackInPlace ==
  [][op' \in {"get_page", "get_new_page", "discard_page"}
       => /\ file'.size >= file.size
          /\ \A o \in PageOffsets :
               (o + PAGE_SIZE <= file.size
                  /\ (o \in ResidentOffsets(pages_) => o \in ResidentOffsets(pages_')))
                 => file'.image[o] = file.image[o]]_vars

\* The pool's free slots changed as discard_page(offset) changes them
Discarded(offset) ==
  \/ /\ discarded_page_offsets' = Append(discarded_page_offsets, offset)
     /\ empty_pages_start' = empty_pages_start
  \/ /\ discarded_page_offsets' = discarded_page_offsets
     /\ empty_pages_start' = offset
     /\ offset + PAGE_SIZE = empty_pages_start

\* C36: after a merge in inspect_after_erase the slot handed to discard_page
\* is the merged sibling's own offset: never u64 max and never the offset of a
\* leaf a separator still names
C36_DiscardsMergedSibling ==
  [][(op' = "engine_erase_merge" /\ phase' = "open" /\ out'.status = "ok"
        /\ HasRightSibling(arg'))
       => /\ Discarded(SiblingOf(arg').page_offset_)
          /\ \A i \in 1..Len(discarded_page_offsets') :
               /\ discarded_page_offsets'[i] # U64MAX
               /\ \A k \in 1..Len(btree_'.children_) :
                    btree_'.children_[k] >= 0
                      => translated_offset(btree_'.children_[k]) # discarded_page_offsets'[i]
          /\ \A k \in 1..Len(btree_'.children_) :
               btree_'.children_[k] >= 0
                 => translated_offset(btree_'.children_[k]) < empty_pages_start']_vars

\* C37: when get_new_page fails because every resident page is pinned, the
\* allocator is as before the call: empty_pages_start, discarded_page_offsets
\* and the size of the page file are unchanged
C37_FailedAllocationLeavesNoTrace ==
  [][(op' = "get_new_page" /\ call'.status = "throw")
       => /\ empty_pages_start' = empty_pages_start
          /\ discarded_page_offsets' = discarded_page_offsets
          /\ file'.size = file.size]_vars

(* Claims about the bounds of the copies between sibling pages. *)

\* The std::copy of merge_with, in records: the whole right array goes to the
\* left array from slot left_empty_start on
merge_copy(left, right_sibling) ==
  [ first |-> solidify(left).dest_index, count |-> RECORD_COUNT ]

\* The std::copy of borrow_from: to_move records from the start of the right
\* array go to the left array from slot left_empty_start on
borrow_copy(left, right_sibling) ==
  [ first |-> solidify(left).dest_index, count |-> to_move(left, right_sibling) ]

\* C38: merge_with and borrow_from read and write only slots in
\* [0, RECORD_COUNT) of either page; merge_with copies exactly right.size()
\* records and writes nothing at or beyond slot RECORD_COUNT of the left array
C38_CopiesInBounds ==
  [][/\ op' = "merge_with"
          => /\ merge_copy(page, page2).count = size(page2)
             /\ merge_copy(page, page2).first + merge_copy(page, page2).count <= RECORD_COUNT
     /\ op' = "borrow_from"
          => /\ borrow_copy(page, page2).count <= RECORD_COUNT
             /\ borrow_copy(page, page2).first + borrow_copy(page, page2).count <= RECORD_COUNT]_vars

\* C39: solidify() moves the occupied records, in their order and number, into
\* slots [0, size()), clears every bit from size() on, returns size(), and a
\* second solidify() changes nothing more
C39_SolidifyCompacts ==
  [][op' = "solidify"
       => /\ OccupiedSeq(page') = OccupiedSeq(page)
          /\ \A i \in Slots : page'.bitmap_[i] <=> i < size(page)
          /\ \A i \in Slots : i < size(page) => page'.record_data_[i] = OccupiedSeq(page)[i + 1]
          /\ ret' = size(page)
          /\ solidify(page') = [page |-> page', dest_index |-> ret']]_vars

\* solidify() moved two records of different keys down over a free slot
C39_Compacted ==
  /\ op = "solidify"
  /\ ok
  /\ ret = 2
  /\ memcmp(page.record_data_[0], page.record_data_[1], KEY_SIZE) < 0

\* The number of bytes extract_key's std::copy(record.begin(), record.end(),
\* key.begin()) writes from key.begin() on
extract_key_copied(record) == Len(record)

\* C40: extract_key(record), as insert calls it, returns exactly the first
\* KEY_SIZE bytes of the record and copies no more than KEY_SIZE bytes into
\* the key, so that the call cannot damage the memory behind the key
C40_ExtractKeyInBounds ==
  [][op' = "engine_insert"
       => /\ \A i \in 1..KEY_SIZE : extract_key(arg')[i] = arg'[i]
          /\ Len(extract_key(arg')) = KEY_SIZE
          /\ extract_key_copied(arg') <= KEY_SIZE
          /\ out'.status # "crash"]_vars
====
